---------------------------- MODULE Spec2Model ----------------------------
(***************************************************************************)
(* Model of the persistent B+Tree of p2_bplustree_solution: the page file, *)
(* the in-memory metadata, and the engine operations put and delete with   *)
(* everything they call (find_page, alloc_page, free_page, split_leaf,     *)
(* split_dir_entry, split_dir, merge_dir_page), plus the read-only         *)
(* operations get, iter and check_tree as operators over the state.        *)
(*                                                                         *)
(* Conventions.                                                            *)
(*  - The fixed arrays of a page (keys, pointers, key_value) are modelled  *)
(*    by their active prefix: a sequence of `count` keys (count+1          *)
(*    pointers); count is the length of that sequence.  The methods read   *)
(*    no slot beyond the prefix, and the code zeroes the slots it vacates  *)
(*    (split_page leaves the separator in keys[count], which nothing       *)
(*    reads); KeyAt / PtrAt return 0 / NULL_IDX beyond the prefix.         *)
(*    Sequences are 1-based; every index that appears as an operator       *)
(*    argument or result is the code's 0-based index.                      *)
(*  - An engine state is a record [file, meta, err, bad_free, log]; err   *)
(*    is "ok" until an assert!/index panic ("assert"), a PageIsFullError   *)
(*    ("PageIsFull") or a read past the end of the file ("io") aborts the  *)
(*    running operation, leaving the pages written so far.  log is the     *)
(*    sequence of page indices put_page has written, in order.             *)
(*  - LEAF_RECORD_COUNT and DIR_KEY_COUNT are the page capacities.  The    *)
(*    source sets 502 and 335 and invites smaller values for debugging     *)
(*    (leaf_page.rs:7-9, dir_page.rs:7-9); the model runs with small       *)
(*    capacities, and u32 is scaled to 0..U32_MAX.                         *)
(*  - Spec runs put, delete and open on the tree.  SpecLog runs put and    *)
(*    delete and records in call / wlog the last call and the pages it     *)
(*    wrote; SpecAlloc runs alloc_page, free_page and open as the caller   *)
(*    of test_allocation does, recording in owned / fstack the pages the   *)
(*    caller holds and the pointers it has freed; SpecShrink runs the      *)
(*    insert-then-delete sequence of test_delete; SpecAscend inserts keys  *)
(*    in strictly ascending order; SpecPages runs put_page, get_page and   *)
(*    open on single pages.                                                *)
(*  - SpecFind, SpecDir and SpecLeaf apply one method (DataFile::find of   *)
(*    p1_binary_search_solution, the DirPage methods, LeafPage::put) to    *)
(*    every receiver of a bounded set and record the call in `call`.       *)
(*    SpecSiblings does the same for steal_high_from / steal_low_from on   *)
(*    pairs of sibling directories with their separator.                   *)
(*  - SpecCorrupt builds a tree by puts and overwrites one stored key in   *)
(*    the file before check_tree is read; SpecIter runs put, delete and    *)
(*    the steps of BPlusTreeIterator::next, with weak fairness on the      *)
(*    iterator step (the caller keeps calling next until it gets None).    *)
(***************************************************************************)
EXTENDS Integers, Sequences, FiniteSets, TLC

\* ---- capacities and input domains ------------------------------------
LEAF_RECORD_COUNT == 2
DIR_KEY_COUNT == 4
U32_MAX == 6
MaxVal == 2
MaxOps == 9
MaxOpsFree == 8
MaxKeyFree == 4
MaxOpsLog == 6
MaxAllocOps == 7
MaxPayload == 2
MaxGrowOps == 7
MaxPageOps == 3
MaxRecords == 4
MaxIterOps == 6

\* ---- page/mod.rs constants ---------------------------------------------
METADATA_IDX == 0
DEFAULT_ROOT_IDX == 1
DEFAULT_PAGE0_IDX == 2
NULL_IDX == 0
META_PAGE_T == 0
DIR_PAGE_T == 1
LEAF_PAGE_T == 2
FREE_PAGE_T == 3

Keys == 0..U32_MAX
Vals == 1..MaxVal
None == 0

Last(seq) == seq[Len(seq)]
Front(seq) == SubSeq(seq, 1, Len(seq) - 1)

\* ---- leaf_page.rs --------------------------------------------------------
LeafPage_init ==
  [type |-> LEAF_PAGE_T, key_value |-> <<>>, next |-> NULL_IDX, prev |-> NULL_IDX]

Leaf_count(p) == Len(p.key_value)

\* mutant: off by one, a page with LEAF_RECORD_COUNT pairs takes one more
Leaf_is_full_gt(p) == Leaf_count(p) > LEAF_RECORD_COUNT

Leaf_is_full(p) == Leaf_count(p) >= LEAF_RECORD_COUNT

\* mutant: no leaf ever counts as underfull
Leaf_is_underfull_never(p) == Leaf_count(p) < 0

Leaf_is_underfull(p) == Leaf_count(p) < LEAF_RECORD_COUNT \div 2

\* mutant: a leaf holding just the minimum lends a pair
Leaf_can_allow_stolen_key_ge(p) == Leaf_count(p) >= LEAF_RECORD_COUNT \div 2

Leaf_can_allow_stolen_key(p) == Leaf_count(p) > LEAF_RECORD_COUNT \div 2

\* key_value[idx], the zeroed pair beyond the active prefix
Leaf_get(p, idx) ==
  IF idx < Leaf_count(p) THEN p.key_value[idx + 1] ELSE <<0, 0>>

\* slice::binary_search_by on the active prefix (sorted, distinct keys):
\* [found |-> TRUE, idx] is Ok(idx), [found |-> FALSE, idx] is Err(idx).
Leaf_find_index(p, key) ==
  LET hits == {i \in 1..Leaf_count(p) : p.key_value[i][1] = key}
      less == {i \in 1..Leaf_count(p) : p.key_value[i][1] < key}
  IN IF hits # {}
       THEN [found |-> TRUE, idx |-> (CHOOSE i \in hits : TRUE) - 1]
       ELSE [found |-> FALSE, idx |-> Cardinality(less)]

\* returns [page |-> this page afterwards, new_page |-> the upper half]
Leaf_split(p) ==
  LET my_size == LEAF_RECORD_COUNT \div 2
  IN [page |-> [p EXCEPT !.key_value = SubSeq(p.key_value, 1, my_size)],
      new_page |-> [LeafPage_init EXCEPT
                      !.key_value = SubSeq(p.key_value, my_size + 1, LEAF_RECORD_COUNT)]]

Leaf_find_value(p, key) ==
  LET f == Leaf_find_index(p, key)
  IN IF f.found THEN p.key_value[f.idx + 1][2] ELSE None

\* mutant: a new pair is appended instead of placed at the search position
Leaf_put_append(p, key, value) ==
  LET f == Leaf_find_index(p, key)
  IN IF f.found
       THEN [err |-> "ok", page |-> [p EXCEPT !.key_value[f.idx + 1] = <<key, value>>]]
       ELSE IF Leaf_count(p) >= LEAF_RECORD_COUNT
         THEN [err |-> "PageIsFull", page |-> p]
         ELSE [err |-> "ok",
               page |-> [p EXCEPT !.key_value = Append(@, <<key, value>>)]]

\* returns [err, page]
Leaf_put(p, key, value) ==
  LET f == Leaf_find_index(p, key)
  IN IF f.found
       THEN [err |-> "ok", page |-> [p EXCEPT !.key_value[f.idx + 1] = <<key, value>>]]
       ELSE IF Leaf_is_full(p)
         THEN [err |-> "PageIsFull", page |-> p]
         ELSE [err |-> "ok",
               page |-> [p EXCEPT !.key_value =
                           SubSeq(p.key_value, 1, f.idx) \o <<(<<key, value>>)>>
                             \o SubSeq(p.key_value, f.idx + 1, Leaf_count(p))]]

\* returns [deleted, page]
\* mutant: reports a deletion also when the key is not on the page
Leaf_delete_always(p, key) ==
  LET r == Leaf_find_index(p, key)
  IN IF r.found
       THEN [deleted |-> TRUE,
             page |-> [p EXCEPT !.key_value =
                         SubSeq(@, 1, r.idx) \o SubSeq(@, r.idx + 2, Len(@))]]
       ELSE [deleted |-> TRUE, page |-> p]

Leaf_delete(p, key) ==
  LET f == Leaf_find_index(p, key)
  IN IF f.found
       THEN [deleted |-> TRUE,
             page |-> [p EXCEPT !.key_value =
                         SubSeq(p.key_value, 1, f.idx)
                           \o SubSeq(p.key_value, f.idx + 2, Leaf_count(p))]]
       ELSE [deleted |-> FALSE, page |-> p]

\* returns [err, kv, page]
Leaf_steal_high(p) ==
  IF ~Leaf_can_allow_stolen_key(p)
    THEN [err |-> "assert", kv |-> <<0, 0>>, page |-> p]
    ELSE [err |-> "ok", kv |-> Last(p.key_value),
          page |-> [p EXCEPT !.key_value = Front(p.key_value)]]

\* returns [err, kv, page]
Leaf_steal_low(p) ==
  IF ~Leaf_can_allow_stolen_key(p)
    THEN [err |-> "assert", kv |-> <<0, 0>>, page |-> p]
    ELSE [err |-> "ok", kv |-> Head(p.key_value),
          page |-> [p EXCEPT !.key_value = Tail(p.key_value)]]

\* returns [err, page]
Leaf_merge_with(p, other) ==
  IF ~(Leaf_count(p) + Leaf_count(other) <= LEAF_RECORD_COUNT)
    THEN [err |-> "assert", page |-> p]
    ELSE [err |-> "ok", page |-> [p EXCEPT !.key_value = @ \o other.key_value]]

\* ---- dir_page.rs ---------------------------------------------------------
DirectoryPage_init ==
  [type |-> DIR_PAGE_T, keys |-> <<>>, pointers |-> <<NULL_IDX>>]

Dir_count(p) == Len(p.keys)

\* keys[i] / pointers[i]; vacated slots hold 0 / NULL_IDX
KeyAt(p, i) == IF i < Dir_count(p) THEN p.keys[i + 1] ELSE 0

PtrAt(p, i) == IF i <= Dir_count(p) THEN p.pointers[i + 1] ELSE NULL_IDX

\* the while loop of find_pointer_idx
RECURSIVE find_pointer_idx_loop(_, _, _, _)
find_pointer_idx_loop(p, key, start, end) ==
  IF start < end - 1
    THEN LET mid == (end - start) \div 2 + start
         IN IF key < KeyAt(p, mid)
              THEN find_pointer_idx_loop(p, key, start, mid)
              ELSE IF start = mid /\ key < KeyAt(p, mid + 1)
                THEN mid
                ELSE find_pointer_idx_loop(p, key, mid, end)
    ELSE start + 1

\* mutant: a key equal to keys[0] is routed to the left of it
find_pointer_idx_le(p, key) ==
  IF Dir_count(p) = 0 \/ key <= KeyAt(p, 0)
    THEN 0
    ELSE find_pointer_idx_loop(p, key, 0, Dir_count(p))

find_pointer_idx(p, key) ==
  IF Dir_count(p) = 0 \/ key < KeyAt(p, 0)
    THEN 0
    ELSE find_pointer_idx_loop(p, key, 0, Dir_count(p))

\* keys[i] = k (a store into a vacated slot leaves the active prefix as it is)
SetKey(p, i, k) == IF i < Dir_count(p) THEN [p EXCEPT !.keys[i + 1] = k] ELSE p

\* mutant: the pointer behind the one that covers the key is followed
find_pointer_next(p, key) == PtrAt(p, find_pointer_idx(p, key) + 1)

find_pointer(p, key) == PtrAt(p, find_pointer_idx(p, key))

\* mutant: off by one, a page with DIR_KEY_COUNT keys takes one more
Dir_is_full_gt(p) == Dir_count(p) > DIR_KEY_COUNT

Dir_is_full(p) == Dir_count(p) >= DIR_KEY_COUNT

\* mutant: a directory page is never taken to be underfull
Dir_is_underfull_never(p) == FALSE

Dir_is_underfull(p) == Dir_count(p) < (DIR_KEY_COUNT \div 2) - 1

Dir_can_allow_stolen_key(p) == Dir_count(p) > DIR_KEY_COUNT \div 2

\* mutant: the new pointer is inserted before the split pointer, not after it
split_at_ptr_before(p, split_ptr, split_key, new_ptr) ==
  IF Dir_count(p) >= DIR_KEY_COUNT
    THEN [err |-> "PageIsFull", page |-> p]
    ELSE LET idx == find_pointer_idx(p, split_key)
         IN IF PtrAt(p, idx) # split_ptr
              THEN [err |-> "assert", page |-> p]
              ELSE [err |-> "ok",
                    page |-> [p EXCEPT
                      !.keys = SubSeq(p.keys, 1, idx) \o <<split_key>>
                                 \o SubSeq(p.keys, idx + 1, Dir_count(p)),
                      !.pointers = SubSeq(p.pointers, 1, idx) \o <<new_ptr>>
                                     \o SubSeq(p.pointers, idx + 1, Dir_count(p) + 1)]]

\* returns [err, page]
split_at_ptr(p, split_ptr, split_key, new_ptr) ==
  IF Dir_is_full(p)
    THEN [err |-> "PageIsFull", page |-> p]
    ELSE LET idx == find_pointer_idx(p, split_key)
         IN IF PtrAt(p, idx) # split_ptr
              THEN [err |-> "assert", page |-> p]
              ELSE [err |-> "ok",
                    page |-> [p EXCEPT
                      !.keys = SubSeq(p.keys, 1, idx) \o <<split_key>>
                                 \o SubSeq(p.keys, idx + 1, Dir_count(p)),
                      !.pointers = SubSeq(p.pointers, 1, idx + 1) \o <<new_ptr>>
                                     \o SubSeq(p.pointers, idx + 2, Dir_count(p) + 1)]]

\* mutant: the separator is also kept as the first key of the new page
split_page_keep_separator(p) ==
  LET my_size == DIR_KEY_COUNT \div 2
  IN [key |-> KeyAt(p, my_size),
      page |-> [p EXCEPT !.keys = SubSeq(p.keys, 1, my_size),
                         !.pointers = SubSeq(p.pointers, 1, my_size + 1)],
      new_page |-> [DirectoryPage_init EXCEPT
                      !.keys = SubSeq(p.keys, my_size + 1, DIR_KEY_COUNT),
                      !.pointers = SubSeq(p.pointers, my_size + 1, DIR_KEY_COUNT + 1)]]

\* returns [key |-> separator, page |-> this page afterwards, new_page]
split_page(p) ==
  LET my_size == DIR_KEY_COUNT \div 2
  IN [key |-> KeyAt(p, my_size),
      page |-> [p EXCEPT !.keys = SubSeq(p.keys, 1, my_size),
                         !.pointers = SubSeq(p.pointers, 1, my_size + 1)],
      new_page |-> [DirectoryPage_init EXCEPT
                      !.keys = SubSeq(p.keys, my_size + 2, DIR_KEY_COUNT),
                      !.pointers = SubSeq(p.pointers, my_size + 2, DIR_KEY_COUNT + 1)]]

\* returns [err, page]; idx is the index of the pointer to drop
delete_idx(p, idx) ==
  IF ~(idx > 0) \/ idx > Dir_count(p)
    THEN [err |-> "assert", page |-> p]
    ELSE [err |-> "ok",
          page |-> [p EXCEPT
            !.keys = SubSeq(p.keys, 1, idx - 1) \o SubSeq(p.keys, idx + 1, Dir_count(p)),
            !.pointers = SubSeq(p.pointers, 1, idx)
                           \o SubSeq(p.pointers, idx + 2, Dir_count(p) + 1)]]

\* mutant: the key taken from the sibling goes into this page and the parent
\* key is handed back
steal_high_from_keep_key(p, other, parent_key) ==
  IF ~(Dir_count(p) < DIR_KEY_COUNT) \/ ~(Dir_count(other) > 0)
    THEN [err |-> "assert", key |-> 0, page |-> p, other |-> other]
    ELSE [err |-> "ok",
          key |-> parent_key,
          page |-> [p EXCEPT !.keys = <<KeyAt(other, Dir_count(other) - 1)>> \o @,
                             !.pointers = <<PtrAt(other, Dir_count(other))>> \o @],
          other |-> [other EXCEPT !.keys = Front(@), !.pointers = Front(@)]]

\* self.steal_high_from(other, parent_key); returns [err, key, page, other]
steal_high_from(p, other, parent_key) ==
  IF ~(Dir_count(p) < DIR_KEY_COUNT) \/ ~(Dir_count(other) > 0)
    THEN [err |-> "assert", key |-> 0, page |-> p, other |-> other]
    ELSE [err |-> "ok",
          key |-> KeyAt(other, Dir_count(other) - 1),
          page |-> [p EXCEPT !.keys = <<parent_key>> \o @,
                             !.pointers = <<PtrAt(other, Dir_count(other))>> \o @],
          other |-> [other EXCEPT !.keys = Front(@), !.pointers = Front(@)]]

\* self.steal_low_from(other, parent_key); returns [err, key, page, other]
steal_low_from(p, other, parent_key) ==
  IF ~(Dir_count(p) < DIR_KEY_COUNT) \/ ~(Dir_count(other) > 0)
    THEN [err |-> "assert", key |-> 0, page |-> p, other |-> other]
    ELSE [err |-> "ok",
          key |-> KeyAt(other, 0),
          page |-> [p EXCEPT !.keys = @ \o <<parent_key>>,
                             !.pointers = @ \o <<PtrAt(other, 0)>>],
          other |-> [other EXCEPT !.keys = Tail(@), !.pointers = Tail(@)]]

\* mutant: the parent key is not put between the keys of the two pages
Dir_merge_with_drop_key(p, other, parent_key) ==
  IF ~(Dir_count(p) + Dir_count(other) <= DIR_KEY_COUNT)
    THEN [err |-> "assert", page |-> p]
    ELSE [err |-> "ok",
          page |-> [p EXCEPT !.keys = @ \o other.keys,
                             !.pointers = @ \o other.pointers]]

\* self.merge_with(other, parent_key); returns [err, page].  Beyond the
\* assertion, the slices written must fit the arrays.
Dir_merge_with(p, other, parent_key) ==
  IF ~(Dir_count(p) + Dir_count(other) <= DIR_KEY_COUNT)
       \/ Dir_count(p) + 1 + Dir_count(other) > DIR_KEY_COUNT
    THEN [err |-> "assert", page |-> p]
    ELSE [err |-> "ok",
          page |-> [p EXCEPT !.keys = @ \o <<parent_key>> \o other.keys,
                             !.pointers = @ \o other.pointers]]

\* ---- metadata_page.rs / free_page.rs ----------------------------------
MetadataPage_init(next_free_page, root_page, data_head, data_tail, pages_allocated, depth) ==
  [type |-> META_PAGE_T, next_free_page |-> next_free_page, root_page |-> root_page,
   data_head |-> data_head, data_tail |-> data_tail,
   pages_allocated |-> pages_allocated, depth |-> depth]

FreePage_init(next) == [type |-> FREE_PAGE_T, next_free_page |-> next]

\* a page of the file that was never written (a hole left by a write past the end)
ZeroPage == [type |-> 0]

\* ---- bplus_tree.rs: page management ----------------------------------------
Fail(s, e) == [s EXCEPT !.err = e]

FileLen(s) == Cardinality(DOMAIN s.file)

\* outcome of get_page::<T>(ptr): "io" past the end of the file, "assert" on
\* a tag other than T::EXPECTED_PAGE_TYPE, else "ok" and the page is s.file[ptr]
get_page_err(s, ptr, t) ==
  IF ptr \notin DOMAIN s.file THEN "io"
  ELSE IF s.file[ptr].type # t THEN "assert"
  ELSE "ok"

\* get_page::<T>(ptr); returns [s, page]: a failed read or a failed tag
\* assertion ends the run, else the page stored at ptr is returned
get_page(s, ptr, t) ==
  LET e == get_page_err(s, ptr, t)
  IN IF e # "ok" THEN [s |-> Fail(s, e), page |-> ZeroPage]
     ELSE [s |-> s, page |-> s.file[ptr]]

put_page(s, ptr, page) ==
  LET n == FileLen(s)
      top == IF ptr >= n THEN ptr ELSE n - 1
  IN [s EXCEPT !.log = Append(@, ptr), !.file = [i \in 0..top |->
                           IF i = ptr THEN page
                           ELSE IF i < n THEN s.file[i] ELSE ZeroPage]]

\* mutant: the in-memory metadata is not written to page 0
put_meta_skip(s) == s

put_meta(s) == put_page(s, METADATA_IDX, s.meta)

\* The free-list as the sequence of pages reached from next_free_page; the
\* walk stops at NULL_IDX, at a page that is not a free page, or at a page
\* already visited.
RECURSIVE FreeWalk(_, _, _)
FreeWalk(s, ptr, seen) ==
  IF ptr = NULL_IDX \/ ptr \in seen \/ get_page_err(s, ptr, FREE_PAGE_T) # "ok"
    THEN <<>>
    ELSE <<ptr>> \o FreeWalk(s, s.file[ptr].next_free_page, seen \cup {ptr})

FreeList(s) == FreeWalk(s, s.meta.next_free_page, {})

FreeSet(s) == {FreeList(s)[i] : i \in 1..Len(FreeList(s))}

\* mutant: the file is extended even when the free-list holds a page
alloc_page_extend(s, page) ==
  LET ptr == s.meta.pages_allocated
      s1 == put_meta([s EXCEPT !.meta.pages_allocated = @ + 1])
  IN [s |-> put_page(s1, ptr, page), ptr |-> ptr]

\* mutant: the head of the free-list is handed out but stays the head
alloc_page_keep_head(s, page) ==
  IF s.meta.next_free_page = NULL_IDX
    THEN alloc_page_extend(s, page)
    ELSE LET ptr == s.meta.next_free_page
         IN [s |-> put_page(put_meta(s), ptr, page), ptr |-> ptr]

\* mutant: extending the file counts two pages for the one written
alloc_page_count2(s, page) ==
  IF s.meta.next_free_page = NULL_IDX
    THEN LET ptr == s.meta.pages_allocated
             s1 == put_meta([s EXCEPT !.meta.pages_allocated = @ + 2])
         IN [s |-> put_page(s1, ptr, page), ptr |-> ptr]
    ELSE LET ptr == s.meta.next_free_page
             s1 == put_meta([s EXCEPT !.meta.next_free_page =
                                        s.file[ptr].next_free_page])
         IN [s |-> put_page(s1, ptr, page), ptr |-> ptr]

\* returns [s, ptr]
alloc_page(s, page) ==
  IF s.meta.next_free_page = NULL_IDX
    THEN LET ptr == s.meta.pages_allocated
             s1 == put_meta([s EXCEPT !.meta.pages_allocated = @ + 1])
         IN [s |-> put_page(s1, ptr, page), ptr |-> ptr]
    ELSE LET ptr == s.meta.next_free_page
             e == get_page_err(s, ptr, FREE_PAGE_T)
         IN IF e # "ok"
              THEN [s |-> Fail(s, e), ptr |-> ptr]
              ELSE LET free == s.file[ptr]
                       s1 == put_meta([s EXCEPT !.meta.next_free_page = free.next_free_page])
                   IN [s |-> put_page(s1, ptr, page), ptr |-> ptr]

\* mutant: the metadata is pointed at ptr but no FreePage is written there
free_page_unwritten(s, ptr) ==
  put_meta([s EXCEPT !.bad_free = @ \/ ptr = NULL_IDX \/ ptr \in FreeSet(s),
                     !.meta.next_free_page = ptr])

\* mutant: the freed page does not link to the previous head of the free-list
free_page_unlinked(s, ptr) ==
  LET free == FreePage_init(NULL_IDX)
      s1 == put_page([s EXCEPT !.bad_free = @ \/ ptr = NULL_IDX \/ ptr \in FreeSet(s)],
                     ptr, free)
  IN put_meta([s1 EXCEPT !.meta.next_free_page = ptr])

\* mutant: the freed page names itself as the next free page
free_page_self_link(s, ptr) ==
  LET free == FreePage_init(ptr)
      s1 == put_page([s EXCEPT !.bad_free = @ \/ ptr = NULL_IDX \/ ptr \in FreeSet(s)],
                     ptr, free)
  IN put_meta([s1 EXCEPT !.meta.next_free_page = ptr])

\* bad_free records a call that releases page 0 or a page already on the
\* free-list (history only; the code keeps no such flag)
free_page(s, ptr) ==
  LET free == FreePage_init(s.meta.next_free_page)
      s1 == put_page([s EXCEPT !.bad_free = @ \/ ptr = NULL_IDX \/ ptr \in FreeSet(s)],
                     ptr, free)
  IN put_meta([s1 EXCEPT !.meta.next_free_page = ptr])

\* ---- bplus_tree.rs: read methods -------------------------------------------
\* returns [err, path]; path is 1-based: path[1] is the root, Last(path) the leaf
RECURSIVE find_page_loop(_, _, _, _)
find_page_loop(s, key, path, i) ==
  IF i >= s.meta.depth
    THEN [err |-> "ok", path |-> path]
    ELSE LET curr_ptr == Last(path)
             e == get_page_err(s, curr_ptr, DIR_PAGE_T)
         IN IF e # "ok"
              THEN [err |-> e, path |-> path]
              ELSE find_page_loop(s, key,
                     Append(path, find_pointer(s.file[curr_ptr], key)), i + 1)

find_page(s, key) == find_page_loop(s, key, <<s.meta.root_page>>, 0)

\* returns [err, value]; value None is Option::None
get(s, key) ==
  LET v == find_page(s, key)
  IN IF v.err # "ok" THEN [err |-> v.err, value |-> None]
     ELSE LET ptr == Last(v.path)
              e == get_page_err(s, ptr, LEAF_PAGE_T)
          IN IF e # "ok" THEN [err |-> e, value |-> None]
             ELSE [err |-> "ok", value |-> Leaf_find_value(s.file[ptr], key)]

\* ---- bplus_tree.rs: insertion ------------------------------------------
RECURSIVE split_dir_entry(_, _, _, _), split_dir(_, _, _)

\* split_at_ptr on `page`, then put_page(ptr, page)
SplitAtAndWrite(s, ptr, page, child_ptr, split_key, new_child_ptr) ==
  LET r == split_at_ptr(page, child_ptr, split_key, new_child_ptr)
  IN IF r.err # "ok" THEN Fail(s, r.err) ELSE put_page(s, ptr, r.page)

\* mutant: after a parent split the entry always goes into the old half
split_dir_entry_old_half(s, ptr_stack, split_key, new_child_ptr) ==
  IF Len(ptr_stack) < 2 THEN Fail(s, "assert") ELSE
  LET child_ptr == ptr_stack[Len(ptr_stack)]
      dir_ptr == ptr_stack[Len(ptr_stack) - 1]
      e == get_page_err(s, dir_ptr, DIR_PAGE_T)
  IN IF e # "ok" THEN Fail(s, e) ELSE
     LET dir_page == s.file[dir_ptr]
     IN IF Dir_is_full(dir_page)
          THEN LET r == split_dir(s, dir_page, Front(ptr_stack))
               IN IF r.s.err # "ok" THEN r.s
                  ELSE SplitAtAndWrite(r.s, dir_ptr, r.dir,
                                       child_ptr, split_key, new_child_ptr)
          ELSE SplitAtAndWrite(s, dir_ptr, dir_page, child_ptr, split_key, new_child_ptr)

\* returns the engine state afterwards
split_dir_entry(s, ptr_stack, split_key, new_child_ptr) ==
  IF Len(ptr_stack) < 2 THEN Fail(s, "assert") ELSE
  LET child_ptr == ptr_stack[Len(ptr_stack)]
      dir_ptr == ptr_stack[Len(ptr_stack) - 1]
      e == get_page_err(s, dir_ptr, DIR_PAGE_T)
  IN IF e # "ok" THEN Fail(s, e) ELSE
     LET dir_page == s.file[dir_ptr]
     IN IF Dir_is_full(dir_page)
          THEN LET r == split_dir(s, dir_page, Front(ptr_stack))
               IN IF r.s.err # "ok" THEN r.s
                  ELSE IF Dir_is_full(r.dir) \/ Dir_is_full(r.new_dir_page)
                    THEN Fail(r.s, "assert")
                  ELSE IF split_key < r.split_key
                    THEN SplitAtAndWrite(r.s, dir_ptr, r.dir,
                                         child_ptr, split_key, new_child_ptr)
                    ELSE SplitAtAndWrite(r.s, r.new_dir_ptr, r.new_dir_page,
                                         child_ptr, split_key, new_child_ptr)
          ELSE SplitAtAndWrite(s, dir_ptr, dir_page, child_ptr, split_key, new_child_ptr)

\* mutant: a root split installs the new root without incrementing depth
split_dir_same_depth(s, dir, ptr_stack) ==
  LET dir_ptr == ptr_stack[Len(ptr_stack)]
      sp == split_page(dir)
      a == alloc_page(s, sp.new_page)
      ret(st) == [s |-> st, split_key |-> sp.key, new_dir_ptr |-> a.ptr,
                  new_dir_page |-> sp.new_page, dir |-> sp.page]
  IN IF a.s.err # "ok" THEN ret(a.s) ELSE
     LET s1 == put_page(a.s, dir_ptr, sp.page)
     IN IF Len(ptr_stack) <= 1
          THEN LET new_root == [DirectoryPage_init EXCEPT
                                  !.keys = <<sp.key>>,
                                  !.pointers = <<dir_ptr, a.ptr>>]
                   b == alloc_page(s1, new_root)
               IN IF b.s.err # "ok" THEN ret(b.s)
                  ELSE ret(put_meta([b.s EXCEPT !.meta.root_page = b.ptr]))
          ELSE ret(split_dir_entry(s1, ptr_stack, sp.key, a.ptr))

\* returns [s, split_key, new_dir_ptr, new_dir_page, dir |-> dir afterwards]
split_dir(s, dir, ptr_stack) ==
  LET dir_ptr == ptr_stack[Len(ptr_stack)]
      sp == split_page(dir)
      a == alloc_page(s, sp.new_page)
      ret(st) == [s |-> st, split_key |-> sp.key, new_dir_ptr |-> a.ptr,
                  new_dir_page |-> sp.new_page, dir |-> sp.page]
  IN IF a.s.err # "ok" THEN ret(a.s) ELSE
     LET s1 == put_page(a.s, dir_ptr, sp.page)
     IN IF Len(ptr_stack) <= 1
          THEN LET new_root == [DirectoryPage_init EXCEPT
                                  !.keys = <<sp.key>>,
                                  !.pointers = <<dir_ptr, a.ptr>>]
                   b == alloc_page(s1, new_root)
               IN IF b.s.err # "ok" THEN ret(b.s)
                  ELSE ret(put_meta([b.s EXCEPT !.meta.root_page = b.ptr,
                                                !.meta.depth = @ + 1]))
          ELSE ret(split_dir_entry(s1, ptr_stack, sp.key, a.ptr))

\* returns [s, split_key, new_leaf_ptr, new_leaf, leaf |-> leaf afterwards]
split_leaf(s, leaf, ptr_stack) ==
  LET leaf_ptr == ptr_stack[Len(ptr_stack)]
      sp == Leaf_split(leaf)
      split_key == Leaf_get(sp.new_page, 0)[1]
      new_leaf == [sp.new_page EXCEPT !.prev = leaf_ptr, !.next = leaf.next]
      a == alloc_page(s, new_leaf)
      new_leaf_ptr == a.ptr
      leaf1 == [sp.page EXCEPT !.next = new_leaf_ptr]
      ret(st) == [s |-> st, split_key |-> split_key, new_leaf_ptr |-> new_leaf_ptr,
                  new_leaf |-> new_leaf, leaf |-> leaf1]
  IN IF ~Leaf_is_full(leaf) THEN ret(Fail(s, "assert"))
     ELSE IF a.s.err # "ok" THEN ret(a.s)
     ELSE LET e == get_page_err(a.s, new_leaf.next, LEAF_PAGE_T)
              s1 == IF new_leaf.next = NULL_IDX
                      THEN put_meta([a.s EXCEPT !.meta.data_tail = new_leaf_ptr])
                      ELSE IF e # "ok" THEN Fail(a.s, e)
                      ELSE put_page(a.s, new_leaf.next,
                                    [a.s.file[new_leaf.next] EXCEPT !.prev = new_leaf_ptr])
          IN IF s1.err # "ok" THEN ret(s1)
             ELSE ret(split_dir_entry(put_page(s1, leaf_ptr, leaf1),
                                      ptr_stack, split_key, new_leaf_ptr))

\* Leaf::put on `page`, then put_page(ptr, page)
LeafPutAndWrite(s, ptr, page, key, value) ==
  LET r == Leaf_put(page, key, value)
  IN IF r.err # "ok" THEN Fail(s, r.err) ELSE put_page(s, ptr, r.page)

\* mutant: the pair is put on the leaf found without splitting a full leaf first
put_without_split(s, key, value) ==
  LET fp == find_page(s, key)
  IN IF fp.err # "ok" THEN Fail(s, fp.err) ELSE
     LET leaf_ptr == Last(fp.path)
         e == get_page_err(s, leaf_ptr, LEAF_PAGE_T)
     IN IF e # "ok" THEN Fail(s, e)
        ELSE LeafPutAndWrite(s, leaf_ptr, s.file[leaf_ptr], key, value)

\* BPlusTree::put; returns the engine state afterwards
put(s, key, value) ==
  LET fp == find_page(s, key)
  IN IF fp.err # "ok" THEN Fail(s, fp.err) ELSE
     LET ptr_stack == fp.path
         leaf_ptr == ptr_stack[Len(ptr_stack)]
         e == get_page_err(s, leaf_ptr, LEAF_PAGE_T)
     IN IF e # "ok" THEN Fail(s, e) ELSE
        LET leaf == s.file[leaf_ptr]
        IN IF Leaf_is_full(leaf)
             THEN LET r == split_leaf(s, leaf, ptr_stack)
                  IN IF r.s.err # "ok" THEN r.s
                     ELSE IF Leaf_is_full(r.leaf) \/ Leaf_is_full(r.new_leaf)
                       THEN Fail(r.s, "assert")
                     ELSE IF key < r.split_key
                       THEN LeafPutAndWrite(r.s, leaf_ptr, r.leaf, key, value)
                       ELSE LeafPutAndWrite(r.s, r.new_leaf_ptr, r.new_leaf, key, value)
             ELSE LeafPutAndWrite(s, leaf_ptr, leaf, key, value)

\* ---- bplus_tree.rs: deletion -------------------------------------------
\* The chain repair shared by both merge branches of delete: `keep` (at
\* keep_ptr) has absorbed its right neighbour and taken over its next.
\* Updates data_tail or the successor's prev.
\* mutant: data_tail is not moved when the last leaf is merged away
RelinkAfterMerge_no_tail(s, keep, keep_ptr) ==
  IF keep.next = NULL_IDX
    THEN s
    ELSE LET e == get_page_err(s, keep.next, LEAF_PAGE_T)
         IN IF e # "ok" THEN Fail(s, e)
            ELSE put_page(s, keep.next, [s.file[keep.next] EXCEPT !.prev = keep_ptr])

RelinkAfterMerge(s, keep, keep_ptr) ==
  IF keep.next = NULL_IDX
    THEN put_meta([s EXCEPT !.meta.data_tail = keep_ptr])
    ELSE LET e == get_page_err(s, keep.next, LEAF_PAGE_T)
         IN IF e # "ok" THEN Fail(s, e)
            ELSE put_page(s, keep.next, [s.file[keep.next] EXCEPT !.prev = keep_ptr])

RECURSIVE merge_dir_page(_, _, _)
\* mutant: the root is collapsed without lowering depth
merge_dir_page_keep_depth(s, ptr_stack, key) ==
  LET dir_ptr == ptr_stack[Len(ptr_stack)]
      e == get_page_err(s, dir_ptr, DIR_PAGE_T)
  IN IF e # "ok" THEN Fail(s, e) ELSE
     LET dir_page == s.file[dir_ptr]
     IN IF Len(ptr_stack) <= 1
          THEN IF Dir_count(dir_page) >= 1 THEN s
               ELSE IF s.meta.depth = 1 THEN s
               ELSE free_page(put_meta([s EXCEPT !.meta.root_page = PtrAt(dir_page, 0)]),
                              ptr_stack[1])
          ELSE
     LET parent_ptr == ptr_stack[Len(ptr_stack) - 1]
         pe == get_page_err(s, parent_ptr, DIR_PAGE_T)
     IN IF pe # "ok" THEN Fail(s, pe) ELSE
     LET parent_page == s.file[parent_ptr]
         dir_idx == find_pointer_idx(parent_page, key)
         sibling_is_low == dir_idx > 0
         sibling_ptr == IF sibling_is_low THEN PtrAt(parent_page, dir_idx - 1)
                                          ELSE PtrAt(parent_page, dir_idx + 1)
         se == get_page_err(s, sibling_ptr, DIR_PAGE_T)
     IN IF se # "ok" THEN Fail(s, se) ELSE
     LET sibling_page == s.file[sibling_ptr]
         \* index of the parent key separating the page from its sibling
         sep_idx == IF sibling_is_low THEN dir_idx - 1 ELSE dir_idx
     IN IF Dir_can_allow_stolen_key(sibling_page)
          THEN LET st == IF sibling_is_low
                           THEN steal_high_from(dir_page, sibling_page,
                                                KeyAt(parent_page, sep_idx))
                           ELSE steal_low_from(dir_page, sibling_page,
                                               KeyAt(parent_page, sep_idx))
               IN IF st.err # "ok" THEN Fail(s, st.err)
                  ELSE put_page(put_page(put_page(s, dir_ptr, st.page),
                                         sibling_ptr, st.other),
                                parent_ptr, SetKey(parent_page, sep_idx, st.key))
          ELSE IF sibling_ptr = NULL_IDX THEN Fail(s, "assert")
          ELSE LET m == IF sibling_is_low
                          THEN Dir_merge_with(sibling_page, dir_page,
                                              KeyAt(parent_page, dir_idx - 1))
                          ELSE Dir_merge_with(dir_page, sibling_page,
                                              KeyAt(parent_page, dir_idx))
                   gone_idx == IF sibling_is_low THEN dir_idx ELSE dir_idx + 1
                   gone_ptr == IF sibling_is_low THEN dir_ptr ELSE sibling_ptr
                   keep_ptr == IF sibling_is_low THEN sibling_ptr ELSE dir_ptr
                   d == delete_idx(parent_page, gone_idx)
               IN IF m.err # "ok" THEN Fail(s, m.err)
                  ELSE IF d.err # "ok" THEN Fail(s, d.err)
                  ELSE LET s1 == put_page(put_page(free_page(s, gone_ptr),
                                                   keep_ptr, m.page),
                                          parent_ptr, d.page)
                       IN IF Dir_is_underfull(d.page)
                            THEN merge_dir_page(s1, Front(ptr_stack), key)
                            ELSE s1

merge_dir_page(s, ptr_stack, key) ==
  LET dir_ptr == ptr_stack[Len(ptr_stack)]
      e == get_page_err(s, dir_ptr, DIR_PAGE_T)
  IN IF e # "ok" THEN Fail(s, e) ELSE
     LET dir_page == s.file[dir_ptr]
     IN IF Len(ptr_stack) <= 1
          THEN IF Dir_count(dir_page) >= 1 THEN s
               ELSE IF s.meta.depth = 1 THEN s
               ELSE free_page(put_meta([s EXCEPT !.meta.root_page = PtrAt(dir_page, 0),
                                                 !.meta.depth = @ - 1]),
                              ptr_stack[1])
          ELSE
     LET parent_ptr == ptr_stack[Len(ptr_stack) - 1]
         pe == get_page_err(s, parent_ptr, DIR_PAGE_T)
     IN IF pe # "ok" THEN Fail(s, pe) ELSE
     LET parent_page == s.file[parent_ptr]
         dir_idx == find_pointer_idx(parent_page, key)
         sibling_is_low == dir_idx > 0
         sibling_ptr == IF sibling_is_low THEN PtrAt(parent_page, dir_idx - 1)
                                          ELSE PtrAt(parent_page, dir_idx + 1)
         se == get_page_err(s, sibling_ptr, DIR_PAGE_T)
     IN IF se # "ok" THEN Fail(s, se) ELSE
     LET sibling_page == s.file[sibling_ptr]
         \* index of the parent key separating the page from its sibling
         sep_idx == IF sibling_is_low THEN dir_idx - 1 ELSE dir_idx
     IN IF Dir_can_allow_stolen_key(sibling_page)
          THEN LET st == IF sibling_is_low
                           THEN steal_high_from(dir_page, sibling_page,
                                                KeyAt(parent_page, sep_idx))
                           ELSE steal_low_from(dir_page, sibling_page,
                                               KeyAt(parent_page, sep_idx))
               IN IF st.err # "ok" THEN Fail(s, st.err)
                  ELSE put_page(put_page(put_page(s, dir_ptr, st.page),
                                         sibling_ptr, st.other),
                                parent_ptr, SetKey(parent_page, sep_idx, st.key))
          ELSE IF sibling_ptr = NULL_IDX THEN Fail(s, "assert")
          ELSE LET m == IF sibling_is_low
                          THEN Dir_merge_with(sibling_page, dir_page,
                                              KeyAt(parent_page, dir_idx - 1))
                          ELSE Dir_merge_with(dir_page, sibling_page,
                                              KeyAt(parent_page, dir_idx))
                   gone_idx == IF sibling_is_low THEN dir_idx ELSE dir_idx + 1
                   gone_ptr == IF sibling_is_low THEN dir_ptr ELSE sibling_ptr
                   keep_ptr == IF sibling_is_low THEN sibling_ptr ELSE dir_ptr
                   d == delete_idx(parent_page, gone_idx)
               IN IF m.err # "ok" THEN Fail(s, m.err)
                  ELSE IF d.err # "ok" THEN Fail(s, d.err)
                  ELSE LET s1 == put_page(put_page(free_page(s, gone_ptr),
                                                   keep_ptr, m.page),
                                          parent_ptr, d.page)
                       IN IF Dir_is_underfull(d.page)
                            THEN merge_dir_page(s1, Front(ptr_stack), key)
                            ELSE s1

\* BPlusTree::delete; returns the engine state afterwards
delete(s, key) ==
  LET fp == find_page(s, key)
  IN IF fp.err # "ok" THEN Fail(s, fp.err) ELSE
     LET ptr_stack == fp.path
         leaf_ptr == ptr_stack[Len(ptr_stack)]
         e == get_page_err(s, leaf_ptr, LEAF_PAGE_T)
     IN IF e # "ok" THEN Fail(s, e) ELSE
     LET del == Leaf_delete(s.file[leaf_ptr], key)
         leaf_page == del.page
     IN IF ~del.deleted THEN s
        ELSE IF ~Leaf_is_underfull(leaf_page) THEN put_page(s, leaf_ptr, leaf_page)
        ELSE IF Len(ptr_stack) < 2 THEN Fail(s, "assert") ELSE
     LET dir_ptr == ptr_stack[Len(ptr_stack) - 1]
         de == get_page_err(s, dir_ptr, DIR_PAGE_T)
     IN IF de # "ok" THEN Fail(s, de) ELSE
     LET dir_page == s.file[dir_ptr]
         dir_idx == find_pointer_idx(dir_page, key)
     IN IF dir_idx > 0
          THEN LET prev_leaf_ptr == leaf_page.prev
                   pe == get_page_err(s, prev_leaf_ptr, LEAF_PAGE_T)
               IN IF pe # "ok" THEN Fail(s, pe) ELSE
               LET prev_leaf_page == s.file[prev_leaf_ptr]
               IN IF Leaf_can_allow_stolen_key(prev_leaf_page)
                    THEN LET st == Leaf_steal_high(prev_leaf_page)
                             p == Leaf_put(leaf_page, st.kv[1], st.kv[2])
                         IN IF st.err # "ok" THEN Fail(s, st.err)
                            ELSE IF p.err # "ok" THEN Fail(s, p.err)
                            ELSE put_page(put_page(put_page(s, leaf_ptr, p.page),
                                                   prev_leaf_ptr, st.page),
                                          dir_ptr,
                                          SetKey(dir_page, dir_idx - 1, st.kv[1]))
                    ELSE \* merge_is_low: the leaf is appended to its left sibling
                         LET m == Leaf_merge_with(prev_leaf_page, leaf_page)
                             merge_page == [m.page EXCEPT !.next = leaf_page.next]
                             s1 == RelinkAfterMerge(s, merge_page, prev_leaf_ptr)
                             d == delete_idx(dir_page, dir_idx)
                         IN IF m.err # "ok" THEN Fail(s, m.err)
                            ELSE IF s1.err # "ok" THEN s1
                            ELSE IF d.err # "ok" THEN Fail(s1, d.err)
                            ELSE LET s2 == put_page(put_page(free_page(s1, leaf_ptr),
                                                             prev_leaf_ptr, merge_page),
                                                    dir_ptr, d.page)
                                 IN IF Dir_is_underfull(d.page)
                                      THEN merge_dir_page(s2, Front(ptr_stack), key)
                                      ELSE s2
        ELSE IF dir_idx < Dir_count(dir_page)
          THEN LET next_leaf_ptr == PtrAt(dir_page, dir_idx + 1)
                   ne == get_page_err(s, next_leaf_ptr, LEAF_PAGE_T)
               IN IF ne # "ok" THEN Fail(s, ne) ELSE
               LET next_leaf_page == s.file[next_leaf_ptr]
               IN IF Leaf_can_allow_stolen_key(next_leaf_page)
                    THEN LET st == Leaf_steal_low(next_leaf_page)
                             p == Leaf_put(leaf_page, st.kv[1], st.kv[2])
                         IN IF st.err # "ok" THEN Fail(s, st.err)
                            ELSE IF p.err # "ok" THEN Fail(s, p.err)
                            ELSE put_page(put_page(put_page(s, leaf_ptr, p.page),
                                                   next_leaf_ptr, st.page),
                                          dir_ptr,
                                          SetKey(dir_page, dir_idx, Leaf_get(st.page, 0)[1]))
                    ELSE \* the right sibling is appended to the leaf
                         LET m == Leaf_merge_with(leaf_page, next_leaf_page)
                             merged == [m.page EXCEPT !.next = next_leaf_page.next]
                             s1 == RelinkAfterMerge(s, merged, leaf_ptr)
                             d == delete_idx(dir_page, dir_idx + 1)
                         IN IF m.err # "ok" THEN Fail(s, m.err)
                            ELSE IF s1.err # "ok" THEN s1
                            ELSE IF d.err # "ok" THEN Fail(s1, d.err)
                            ELSE LET s2 == put_page(put_page(free_page(s1, next_leaf_ptr),
                                                             leaf_ptr, merged),
                                                    dir_ptr, d.page)
                                 IN IF Dir_is_underfull(d.page)
                                      THEN merge_dir_page(s2, Front(ptr_stack), key)
                                      ELSE s2
        ELSE put_page(s, leaf_ptr, leaf_page)

\* ---- bplus_tree.rs: iter and check_tree -------------------------------
\* BPlusTree::iter + BPlusTreeIterator::next, run to exhaustion.
\* Returns [err, items, pages]: items is the sequence of pairs yielded, pages
\* the leaves read, in order.  err is "loop" when the walk comes back to a
\* leaf it has read (next() would never return None).
RECURSIVE iter_loop(_, _, _, _)
iter_loop(s, ptr, items, pages) ==
  LET e == get_page_err(s, ptr, LEAF_PAGE_T)
  IN IF e # "ok" THEN [err |-> e, items |-> items, pages |-> pages]
     ELSE IF \E j \in 1..Len(pages) : pages[j] = ptr
       THEN [err |-> "loop", items |-> items, pages |-> pages]
     ELSE LET page == s.file[ptr]
              items1 == items \o page.key_value
              pages1 == Append(pages, ptr)
          IN IF page.next = NULL_IDX
               THEN [err |-> "ok", items |-> items1, pages |-> pages1]
               ELSE iter_loop(s, page.next, items1, pages1)

iter(s) == iter_loop(s, s.meta.data_head, <<>>, <<>>)

\* check_tree.  The walk state c is [dir_stack, curr_ptr, curr_idx, low, high,
\* last_data, next_data, res]; res is "run" while the walk goes on, "ok" for
\* Ok(None), "panic" for a failed get_page/unwrap, else the diagnostic found.
CT_Key(c, k) ==
  IF k < c.low THEN "SplitKeyLow"
  ELSE IF k >= c.high THEN "SplitKeyHigh"
  ELSE "run"

CT_Keys(c, ks) ==
  LET bad == {j \in 1..Len(ks) : CT_Key(c, ks[j]) # "run"}
  IN IF bad = {} THEN "run"
     ELSE CT_Key(c, ks[CHOOSE j \in bad : \A m \in bad : j <= m])

CT_Stop(c, r) == [c EXCEPT !.res = r]

\* the for loop that descends to the next data page
RECURSIVE CT_Descend(_, _)
CT_Descend(s, c) ==
  IF Len(c.dir_stack) >= s.meta.depth THEN c ELSE
  LET stack1 == Append(c.dir_stack, <<c.curr_ptr, c.curr_idx, c.low, c.high>>)
      c1 == [c EXCEPT !.dir_stack = stack1]
  IN IF c.curr_ptr >= s.meta.pages_allocated THEN CT_Stop(c1, "InvalidPointer")
     ELSE IF get_page_err(s, c.curr_ptr, DIR_PAGE_T) # "ok" THEN CT_Stop(c1, "panic")
     ELSE LET page == s.file[c.curr_ptr]
              kres == CT_Keys(c, page.keys)
          IN IF Len(stack1) > 1 /\ Dir_is_underfull(page) THEN CT_Stop(c1, "Underfull")
             ELSE IF Len(stack1) <= 1 /\ Dir_count(page) = 0 /\ s.meta.depth > 1
               THEN CT_Stop(c1, "EmptyRoot")
             ELSE IF kres # "run" THEN CT_Stop(c1, kres)
             ELSE CT_Descend(s,
                    [c1 EXCEPT
                       !.curr_ptr = PtrAt(page, c.curr_idx),
                       !.low = IF c.curr_idx > 0 THEN KeyAt(page, c.curr_idx - 1) ELSE @,
                       !.high = IF Dir_count(page) > 0 /\ c.curr_idx < Dir_count(page) - 1
                                  THEN KeyAt(page, c.curr_idx) ELSE @,
                       !.curr_idx = 0])

\* the sanity check of the current leaf page
CT_Leaf(s, c) ==
  IF c.curr_ptr >= s.meta.pages_allocated THEN CT_Stop(c, "InvalidPointer")
  ELSE IF get_page_err(s, c.curr_ptr, LEAF_PAGE_T) # "ok" THEN CT_Stop(c, "panic")
  ELSE LET page == s.file[c.curr_ptr]
           kres == CT_Keys(c, [j \in 1..Leaf_count(page) |-> page.key_value[j][1]])
       IN IF Leaf_is_underfull(page) /\ s.meta.depth > 1 THEN CT_Stop(c, "Underfull")
          ELSE IF kres # "run" THEN CT_Stop(c, kres)
          ELSE IF c.next_data # c.curr_ptr THEN CT_Stop(c, "NextPointer")
          ELSE IF c.last_data # page.prev THEN CT_Stop(c, "PrevPointer")
          ELSE [c EXCEPT !.next_data = page.next, !.last_data = c.curr_ptr]

\* restore the walk position from the top of dir_stack
CT_Pop(c) ==
  LET t == Last(c.dir_stack)
  IN [c EXCEPT !.dir_stack = Front(@), !.curr_ptr = t[1], !.curr_idx = t[2],
               !.low = t[3], !.high = t[4]]

\* the while loop that ascends until there is a next child
RECURSIVE CT_AscendLoop(_, _)
CT_AscendLoop(s, c) ==
  IF c.curr_ptr >= s.meta.pages_allocated THEN CT_Stop(c, "InvalidPointer")
  ELSE IF get_page_err(s, c.curr_ptr, DIR_PAGE_T) # "ok" THEN CT_Stop(c, "panic")
  ELSE IF c.curr_idx >= Dir_count(s.file[c.curr_ptr])
    THEN IF c.dir_stack = <<>>
           THEN IF c.next_data # 0 THEN CT_Stop(c, "LastNotNull")
                ELSE IF c.last_data # s.meta.data_tail THEN CT_Stop(c, "TailPointer")
                ELSE CT_Stop(c, "ok")
           ELSE CT_AscendLoop(s, CT_Pop(c))
    ELSE c

CT_Ascend(s, c) ==
  IF c.dir_stack = <<>> THEN CT_Stop(c, "panic") ELSE CT_AscendLoop(s, CT_Pop(c))

RECURSIVE CT_Loop(_, _)
CT_Loop(s, c) ==
  LET d == CT_Descend(s, c)
      l == CT_Leaf(s, d)
      a == CT_Ascend(s, l)
  IN IF d.res # "run" THEN d.res
     ELSE IF l.res # "run" THEN l.res
     ELSE IF a.res # "run" THEN a.res
     ELSE CT_Loop(s, [a EXCEPT !.curr_idx = @ + 1])

check_tree(s) ==
  CT_Loop(s, [dir_stack |-> <<>>, curr_ptr |-> s.meta.root_page, curr_idx |-> 0,
              low |-> 0, high |-> U32_MAX, last_data |-> 0,
              next_data |-> s.meta.data_head, res |-> "run"])

\* ---- the state machine -------------------------------------------------
VARIABLES
  file,      \* the backing file: page index -> page
  meta,      \* BPlusTree.meta, the in-memory metadata page
  err,       \* "ok", or how the last operation failed
  bad_free,  \* history: some free_page call released page 0 or a free page
  live,      \* history: key -> last value put and not deleted since, or None
  ops,       \* history: number of put/delete calls made so far
  free_vals, \* input regime of the run: FALSE - every put writes ValOf(key),
             \* as the tests do (k % 10000); TRUE - puts write any value, to
             \* keys 0..MaxKeyFree
  call,      \* history: the last call traced, [op, arg, ret]
  wlog,      \* history: the pages written by the last call traced, in order
  owned,     \* history: pointer -> page, for the pages handed out by
             \* alloc_page to the caller and not freed since
  fstack     \* history: the pointers freed by the caller and not handed
             \* out again since, oldest first

vars == <<file, meta, err, bad_free, live, ops, free_vals, call, wlog, owned, fstack>>

\* the history of traced calls
trace == <<call, wlog, owned, fstack>>

State == [file |-> file, meta |-> meta, err |-> err, bad_free |-> bad_free, log |-> <<>>]

Install(s) ==
  /\ file' = s.file
  /\ meta' = s.meta
  /\ err' = s.err
  /\ bad_free' = s.bad_free

ValOf(k) == (k % MaxVal) + 1

\* the runs explored: at most MaxOps calls writing ValOf(key), or at most
\* MaxOpsFree calls on keys 0..MaxKeyFree writing any value
OpsLeft == ops < (IF free_vals THEN MaxOpsFree ELSE MaxOps)

InRegime(k, v) == IF free_vals THEN k <= MaxKeyFree ELSE v = ValOf(k)

\* mutant: the root directory is written without its pointer to the leaf
init_without_pointer ==
  LET meta0 == MetadataPage_init(NULL_IDX, DEFAULT_ROOT_IDX, DEFAULT_PAGE0_IDX,
                                 DEFAULT_PAGE0_IDX, 3, 1)
      s0 == [file |-> <<>>, meta |-> meta0, err |-> "ok", bad_free |-> FALSE,
             log |-> <<>>]
  IN put_page(put_page(put_page(s0, METADATA_IDX, meta0), DEFAULT_ROOT_IDX,
                       DirectoryPage_init),
              DEFAULT_PAGE0_IDX, LeafPage_init)

\* mutant: the first leaf is written to page 1 and the root to page 2
init_leaf_first ==
  LET meta0 == MetadataPage_init(NULL_IDX, DEFAULT_PAGE0_IDX, DEFAULT_ROOT_IDX,
                                 DEFAULT_ROOT_IDX, 3, 1)
      root == [DirectoryPage_init EXCEPT !.pointers = <<DEFAULT_ROOT_IDX>>]
      s0 == [file |-> <<>>, meta |-> meta0, err |-> "ok", bad_free |-> FALSE,
             log |-> <<>>]
  IN put_page(put_page(put_page(s0, METADATA_IDX, meta0), DEFAULT_ROOT_IDX,
                       LeafPage_init),
              DEFAULT_PAGE0_IDX, root)

\* BPlusTree::init: the file is truncated, then the three pages are written
init ==
  LET meta0 == MetadataPage_init(NULL_IDX, DEFAULT_ROOT_IDX, DEFAULT_PAGE0_IDX,
                                 DEFAULT_PAGE0_IDX, 3, 1)
      root == [DirectoryPage_init EXCEPT !.pointers = <<DEFAULT_PAGE0_IDX>>]
      data == LeafPage_init
      s0 == [file |-> <<>>, meta |-> meta0, err |-> "ok", bad_free |-> FALSE,
             log |-> <<>>]
  IN put_page(put_page(put_page(s0, METADATA_IDX, meta0), DEFAULT_ROOT_IDX, root),
              DEFAULT_PAGE0_IDX, data)

\* MetadataPage::decode of the bytes of a stored metadata or free page: both
\* are repr(C) with page_type at offset 0 and next_free_page at offset 8; the
\* bytes past the struct written are zero (Page::write zero-fills the buffer)
Meta_decode(page) ==
  IF page.type = META_PAGE_T THEN page
  ELSE [MetadataPage_init(page.next_free_page, 0, 0, 0, 0, 0) EXCEPT !.type = page.type]

\* BPlusTree::open: the metadata is read back from page 0 with
\* MetadataPage::read, which does not look at the tag
open(s) ==
  IF METADATA_IDX \notin DOMAIN s.file THEN Fail(s, "io")
  ELSE [s EXCEPT !.meta = Meta_decode(s.file[METADATA_IDX])]

Init ==
  /\ meta = init.meta
  /\ file = init.file
  /\ err = "ok"
  /\ bad_free = FALSE
  /\ live = [k \in Keys |-> None]
  /\ ops = 0
  /\ free_vals \in BOOLEAN
  /\ call = [op |-> "init", arg |-> NULL_IDX, ret |-> NULL_IDX]
  /\ wlog = <<>>
  /\ owned = <<>>
  /\ fstack = <<>>

\* a failed operation leaves a tree that must not be used further
Put(k, v) ==
  /\ err = "ok"
  /\ OpsLeft
  /\ InRegime(k, v)
  /\ Install(put(State, k, v))
  /\ live' = [live EXCEPT ![k] = v]
  /\ ops' = ops + 1
  /\ UNCHANGED <<free_vals, trace>>

Delete(k) ==
  /\ err = "ok"
  /\ OpsLeft
  /\ free_vals => k <= MaxKeyFree
  /\ Install(delete(State, k))
  /\ live' = [live EXCEPT ![k] = None]
  /\ ops' = ops + 1
  /\ UNCHANGED <<free_vals, trace>>

\* the tree is dropped (the file closed) and BPlusTree::open is called on
\* the same file, between any two operations
Reopen ==
  /\ err = "ok"
  /\ Install(open(State))
  /\ UNCHANGED <<live, ops, free_vals, trace>>

Next ==
  \/ \E k \in Keys, v \in Vals : Put(k, v)
  \/ \E k \in Keys : Delete(k)
  \/ Reopen

Spec == Init /\ [][Next]_vars

\* ---- traced runs: put, delete and open with the history of each call ------
Payloads == 1..MaxPayload

Traced(op, arg, ret, s) ==
  /\ call' = [op |-> op, arg |-> arg, ret |-> ret]
  /\ wlog' = s.log

PutT(k, v) ==
  /\ err = "ok"
  /\ ops < MaxOpsLog
  /\ InRegime(k, v)
  /\ \E s \in {put(State, k, v)} : Install(s) /\ Traced("put", k, NULL_IDX, s)
  /\ live' = [live EXCEPT ![k] = v]
  /\ ops' = ops + 1
  /\ UNCHANGED <<free_vals, owned, fstack>>

DeleteT(k) ==
  /\ err = "ok"
  /\ ops < MaxOpsLog
  /\ free_vals => k <= MaxKeyFree
  /\ \E s \in {delete(State, k)} : Install(s) /\ Traced("delete", k, NULL_IDX, s)
  /\ live' = [live EXCEPT ![k] = None]
  /\ ops' = ops + 1
  /\ UNCHANGED <<free_vals, owned, fstack>>

NextLog ==
  \/ \E k \in Keys, v \in Vals : PutT(k, v)
  \/ \E k \in Keys : DeleteT(k)

SpecLog == Init /\ [][NextLog]_vars

\* ---- page management as the caller uses it (test_allocation) ----------
\* alloc_page(&FreePage::init(payload)) on a fresh tree
Alloc(payload) ==
  /\ err = "ok"
  /\ ops < MaxAllocOps
  /\ \E a \in {alloc_page(State, FreePage_init(payload))} :
        /\ Install(a.s)
        /\ Traced("alloc", payload, a.ptr, a.s)
        /\ owned' = [p \in DOMAIN owned \cup {a.ptr} |->
                       IF p = a.ptr THEN FreePage_init(payload) ELSE owned[p]]
        /\ fstack' = SelectSeq(fstack, LAMBDA p : p # a.ptr)
  /\ ops' = ops + 1
  /\ UNCHANGED <<live, free_vals>>

\* free_page(ptr) of a pointer alloc_page returned and that was not freed since
Free(ptr) ==
  /\ err = "ok"
  /\ ops < MaxAllocOps
  /\ ptr \in DOMAIN owned
  /\ \E s \in {free_page(State, ptr)} : Install(s) /\ Traced("free", ptr, NULL_IDX, s)
  /\ owned' = [p \in DOMAIN owned \ {ptr} |-> owned[p]]
  /\ fstack' = Append(fstack, ptr)
  /\ ops' = ops + 1
  /\ UNCHANGED <<live, free_vals>>

\* the tree is dropped (the file closed) and BPlusTree::open is called
ReopenT ==
  /\ err = "ok"
  /\ call.op # "open"
  /\ \E s \in {open(State)} : Install(s) /\ Traced("open", NULL_IDX, NULL_IDX, s)
  /\ UNCHANGED <<live, ops, free_vals, owned, fstack>>

InitAlloc == Init /\ ~free_vals

NextAlloc ==
  \/ \E payload \in Payloads : Alloc(payload)
  \/ \E ptr \in 3..(3 + MaxAllocOps) : Free(ptr)
  \/ ReopenT

SpecAlloc == InitAlloc /\ [][NextAlloc]_vars

\* ---- the tree as a structure ------------------------------------------
RECURSIVE Concat(_)
Concat(seqs) == IF seqs = <<>> THEN <<>> ELSE Head(seqs) \o Concat(Tail(seqs))

Range(seq) == {seq[j] : j \in 1..Len(seq)}

NoDup(seq) == Cardinality(Range(seq)) = Len(seq)

\* every path of `steps` child pointers from ptr passes directory pages only
\* and ends on a leaf page
RECURSIVE SameDepth(_, _, _)
SameDepth(s, ptr, steps) ==
  IF steps = 0
    THEN get_page_err(s, ptr, LEAF_PAGE_T) = "ok"
    ELSE /\ get_page_err(s, ptr, DIR_PAGE_T) = "ok"
         /\ Len(s.file[ptr].pointers) = Dir_count(s.file[ptr]) + 1
         /\ \A i \in 0..Dir_count(s.file[ptr]) :
              SameDepth(s, PtrAt(s.file[ptr], i), steps - 1)

\* the leaves / directories under ptr, left to right, one entry per reference
RECURSIVE Leaves(_, _, _)
Leaves(s, ptr, steps) ==
  IF steps = 0 THEN <<ptr>>
  ELSE Concat([i \in 1..Len(s.file[ptr].pointers) |->
                 Leaves(s, s.file[ptr].pointers[i], steps - 1)])

RECURSIVE Dirs(_, _, _)
Dirs(s, ptr, steps) ==
  IF steps = 0 THEN <<>>
  ELSE <<ptr>> \o Concat([i \in 1..Len(s.file[ptr].pointers) |->
                            Dirs(s, s.file[ptr].pointers[i], steps - 1)])

WellFormed == SameDepth(State, meta.root_page, meta.depth)
TreeLeaves == Leaves(State, meta.root_page, meta.depth)
TreeDirs == Dirs(State, meta.root_page, meta.depth)

\* keys of the directories strictly ascending, and every key under ptr
\* within [lo, hi)
RECURSIVE Ordered(_, _, _, _, _)
Ordered(s, ptr, steps, lo, hi) ==
  LET p == s.file[ptr]
  IN IF steps = 0
       THEN \A j \in 1..Leaf_count(p) : lo <= p.key_value[j][1] /\ p.key_value[j][1] < hi
       ELSE /\ \A j \in 1..Dir_count(p) - 1 : p.keys[j] < p.keys[j + 1]
            /\ \A j \in 1..Dir_count(p) : lo <= p.keys[j] /\ p.keys[j] < hi
            /\ \A i \in 0..Dir_count(p) :
                 Ordered(s, PtrAt(p, i), steps - 1,
                         IF i = 0 THEN lo ELSE KeyAt(p, i - 1),
                         IF i = Dir_count(p) THEN hi ELSE KeyAt(p, i))

\* the live pairs in ascending key order
RECURSIVE LivePairsFrom(_)
LivePairsFrom(k) ==
  IF k > U32_MAX THEN <<>>
  ELSE (IF live[k] = None THEN <<>> ELSE <<(<<k, live[k]>>)>>) \o LivePairsFrom(k + 1)

LivePairs == LivePairsFrom(0)

LiveKeys == {k \in Keys : live[k] # None}

\* the free-list ends in NULL_IDX after passing free pages only, each once
FreeListSound ==
  LET fl == FreeList(State)
      end == IF fl = <<>> THEN meta.next_free_page
             ELSE file[Last(fl)].next_free_page
  IN end = NULL_IDX

\* ---- claims ------------------------------------------------------------
\* C1: after any sequence of put and delete, get(k) returns the value of the
\* most recent put(k, v) not followed by a delete(k), and None for a key
\* never put or deleted since.
C1_GetReturnsLive ==
  \A k \in Keys : get(State, k) = [err |-> "ok", value |-> live[k]]

\* C2: iter() yields exactly the live pairs, each key once with its last
\* value, in strictly ascending key order.
C2_IterYieldsLive ==
  LET it == iter(State) IN it.err = "ok" /\ it.items = LivePairs

\* C3 (as claimed): check_tree() returns Ok(None) after init and after every
\* completed put or delete.
C3_CheckTreeOk == check_tree(State) = "ok"

\* C4: the keys of every reachable directory are strictly ascending and every
\* key under pointers[i] lies in [keys[i-1], keys[i]).
C4_Ordered ==
  WellFormed /\ Ordered(State, meta.root_page, meta.depth, 0, U32_MAX + 1)

\* C5: every directory but the root has count >= DIR_KEY_COUNT/2 - 1, and no
\* directory has count > DIR_KEY_COUNT.
C5_DirCounts ==
  /\ WellFormed
  /\ \A j \in 1..Len(TreeDirs) :
       /\ Dir_count(file[TreeDirs[j]]) <= DIR_KEY_COUNT
       /\ j > 1 => ~Dir_is_underfull(file[TreeDirs[j]])

\* C6: when depth > 1 every leaf has count >= LEAF_RECORD_COUNT/2, and no
\* leaf has count > LEAF_RECORD_COUNT.
C6_LeafCounts ==
  /\ WellFormed
  /\ \A j \in 1..Len(TreeLeaves) :
       /\ Leaf_count(file[TreeLeaves[j]]) <= LEAF_RECORD_COUNT
       /\ meta.depth > 1 => ~Leaf_is_underfull(file[TreeLeaves[j]])

\* C7: every path of child pointers from root_page visits directory pages for
\* exactly depth steps and then lands on a leaf page.
C7_SameDepth == SameDepth(State, meta.root_page, meta.depth)

\* C8: the leaf chain is a consistent doubly-linked list that visits the
\* leaves of the tree in tree order, from data_head to data_tail.
C8_LeafChain ==
  /\ WellFormed
  /\ get_page_err(State, meta.data_head, LEAF_PAGE_T) = "ok"
  /\ get_page_err(State, meta.data_tail, LEAF_PAGE_T) = "ok"
  /\ file[meta.data_head].prev = NULL_IDX
  /\ file[meta.data_tail].next = NULL_IDX
  /\ \A j \in 1..Len(TreeLeaves) :
       LET l == TreeLeaves[j]
       IN file[l].next # NULL_IDX =>
            /\ get_page_err(State, file[l].next, LEAF_PAGE_T) = "ok"
            /\ file[file[l].next].prev = l
  /\ LET it == iter(State)
     IN /\ it.err = "ok"
        /\ it.pages = TreeLeaves
        /\ Last(it.pages) = meta.data_tail

\* C9: the free-list is acyclic, ends in null and holds free pages only; no
\* free_page call released page 0 or a page already on the free-list.
C9_FreeList == FreeListSound /\ ~bad_free

\* C10: pages 1..pages_allocated-1 are partitioned into the free-list and the
\* pages reachable from root_page, each reachable page referenced once, and
\* every reachable pointer is < pages_allocated.
C10_Partition ==
  /\ WellFormed
  /\ LET used == TreeDirs \o TreeLeaves
     IN /\ NoDup(used)
        /\ Range(used) \cap FreeSet(State) = {}
        /\ Range(used) \cup FreeSet(State) = 1..(meta.pages_allocated - 1)

\* ---- witnesses ---------------------------------------------------------
RootPage == file[meta.root_page]
FreeLen == Len(FreeList(State))

\* C1: values were overwritten and leaves merged; a key holding a value other
\* than ValOf and an absent key are both looked up beside a freed page
C1_Witness ==
  /\ free_vals /\ err = "ok"
  /\ FreeLen >= 1
  /\ Dir_count(RootPage) >= 1
  /\ \E k \in LiveKeys : live[k] # ValOf(k) /\ get(State, k).value = live[k]
  /\ \E k \in Keys \ LiveKeys : k < MaxKeyFree /\ get(State, k).value = None

\* C2: iteration over a two-level tree that has seen a merge
C2_Witness ==
  /\ meta.depth = 2 /\ FreeLen >= 1
  /\ Len(iter(State).items) >= 5
  /\ Len(iter(State).pages) >= 4

\* C4: a two-level tree some separator of which is no longer a stored key
C4_Witness ==
  /\ meta.depth = 2 /\ WellFormed
  /\ \E j \in 1..Len(TreeDirs) : \E i \in 1..Dir_count(file[TreeDirs[j]]) :
       live[file[TreeDirs[j]].keys[i]] = None

\* C5: a non-root directory at the minimum count beside one above it
C5_Witness ==
  /\ meta.depth = 2 /\ WellFormed
  /\ \E j \in 2..Len(TreeDirs) :
       Dir_count(file[TreeDirs[j]]) = (DIR_KEY_COUNT \div 2) - 1
  /\ \E j \in 2..Len(TreeDirs) :
       Dir_count(file[TreeDirs[j]]) > DIR_KEY_COUNT \div 2

\* C6: a two-level tree after a merge with a full leaf and a leaf at the minimum
C6_Witness ==
  /\ meta.depth > 1 /\ WellFormed /\ FreeLen >= 1
  /\ \E j \in 1..Len(TreeLeaves) : Leaf_count(file[TreeLeaves[j]]) = LEAF_RECORD_COUNT
  /\ \E j \in 1..Len(TreeLeaves) :
       Leaf_count(file[TreeLeaves[j]]) = LEAF_RECORD_COUNT \div 2

\* C7: the root was split and collapsed again: depth is back to 1 in a file
\* that has held two directory levels (10 pages or more), the directories
\* that went away on the free-list
C7_Witness ==
  /\ meta.depth = 1 /\ WellFormed
  /\ meta.pages_allocated >= 2 * DIR_KEY_COUNT + 2
  /\ Dir_count(RootPage) >= 1
  /\ FreeLen >= 4

\* C8: a chain of three or more leaves whose tail is not the initial leaf and
\* whose page numbers are not in chain order, after a merge
C8_Witness ==
  /\ WellFormed /\ Len(TreeLeaves) >= 3 /\ FreeLen >= 1
  /\ meta.data_tail # DEFAULT_PAGE0_IDX
  /\ \E j \in 1..Len(TreeLeaves) - 1 : TreeLeaves[j] > TreeLeaves[j + 1]

\* C9: two or more pages on the free-list
C9_Witness == FreeLen >= 2 /\ FreeListSound

\* C10: free pages beside a two-level tree, one of them a freed directory
C10_Witness ==
  /\ meta.depth = 2 /\ WellFormed /\ FreeLen >= 1
  /\ meta.pages_allocated >= 9
  /\ \E j \in 1..Len(TreeLeaves) : TreeLeaves[j] < meta.next_free_page

\* ---- grow, then shrink (test_delete) ----------------------------------
\* only the kind of the last call is kept in the history
Phase(op) ==
  /\ call' = [op |-> op, arg |-> NULL_IDX, ret |-> NULL_IDX]
  /\ wlog' = <<>>

\* puts on a fresh tree, writing ValOf(key)
Grow(k) ==
  /\ err = "ok"
  /\ call.op \in {"init", "put"}
  /\ ops < MaxGrowOps
  /\ Install(put(State, k, ValOf(k)))
  /\ Phase("put")
  /\ live' = [live EXCEPT ![k] = ValOf(k)]
  /\ ops' = ops + 1
  /\ UNCHANGED <<free_vals, owned, fstack>>

\* then each inserted key but one is deleted
Shrink(k) ==
  /\ err = "ok"
  /\ call.op \in {"put", "delete"}
  /\ live[k] # None
  /\ Cardinality(LiveKeys) >= 2
  /\ Install(delete(State, k))
  /\ Phase("delete")
  /\ live' = [live EXCEPT ![k] = None]
  /\ ops' = ops + 1
  /\ UNCHANGED <<free_vals, owned, fstack>>

NextShrink ==
  \/ \E k \in Keys : Grow(k)
  \/ \E k \in Keys : Shrink(k)

SpecShrink == InitAlloc /\ [][NextShrink]_vars

\* ---- claims C11 - C20 --------------------------------------------------
\* C11: after every completed operation the metadata page stored at page 0
\* equals the in-memory metadata, so that closing the file and calling open
\* gives back the same engine state: the same pages, the same metadata, and
\* get returns the live value of every key.
C11_MetaRoundTrip ==
  err = "ok" =>
    /\ file[METADATA_IDX] = meta
    /\ open(State) = State
    /\ \A k \in Keys : get(open(State), k) = [err |-> "ok", value |-> live[k]]

\* C11: every field of the metadata that operations change differs from its
\* value at init (a leaf was split, the root was split, a page was freed),
\* and open is about to be called
C11_Witness ==
  /\ ENABLED Reopen
  /\ meta.next_free_page # NULL_IDX
  /\ meta.root_page # DEFAULT_ROOT_IDX
  /\ meta.data_tail # DEFAULT_PAGE0_IDX
  /\ meta.pages_allocated > 3
  /\ meta.depth > 1
  /\ LiveKeys # {}

\* C12: free then allocate reuses the freed pages in LIFO order: alloc_page
\* returns the pointer freed last among those not handed out again, leaving
\* the file at its length, and only when no freed page is left does it
\* append a new page to the file.
C12_Lifo ==
  [][call'.op = "alloc" =>
       IF fstack # <<>>
         THEN /\ call'.ret = Last(fstack)
              /\ fstack' = Front(fstack)
              /\ DOMAIN file' = DOMAIN file
         ELSE /\ call'.ret = FileLen(State)
              /\ DOMAIN file' = 0..FileLen(State)]_vars

\* C12: two pages were freed in a row, the last alloc_page handed out the
\* second of them, and the first is still waiting
C12_Witness ==
  /\ call.op = "alloc"
  /\ Len(fstack) >= 1
  /\ call.ret > fstack[1]
  /\ call.ret < meta.pages_allocated - 1
  /\ meta.next_free_page = Last(fstack)

\* C13: alloc_page with an empty free-list returns the old pages_allocated,
\* increments pages_allocated by exactly 1 and writes the page at ptr;
\* with a non-empty free-list it returns the old next_free_page, sets
\* next_free_page to that free page's next_free_page and leaves
\* pages_allocated unchanged (the page is written at ptr as well).
C13_AllocContract ==
  [][call'.op = "alloc" =>
       /\ err' = "ok"
       /\ file'[call'.ret] = FreePage_init(call'.arg)
       /\ IF meta.next_free_page = NULL_IDX
            THEN /\ call'.ret = meta.pages_allocated
                 /\ meta' = [meta EXCEPT !.pages_allocated = @ + 1]
            ELSE /\ call'.ret = meta.next_free_page
                 /\ meta' = [meta EXCEPT !.next_free_page =
                                           file[meta.next_free_page].next_free_page]]_vars

\* C13: alloc_page has just handed out the last page of the file and left
\* the free-list empty, in a run where both branches were taken: pages were
\* appended, and at least two freed pages were handed out again
C13_Witness ==
  /\ call.op = "alloc"
  /\ call.ret = meta.pages_allocated - 1
  /\ meta.next_free_page = NULL_IDX
  /\ Cardinality(DOMAIN owned) = meta.pages_allocated - 3
  /\ ops >= (meta.pages_allocated - 3) + 4

\* C14: after init and after every completed operation (put and delete with
\* the alloc_page and free_page calls they make, and open) pages_allocated
\* equals the length of the file in pages, and pages_allocated never
\* decreases.
C14_PagesAllocated ==
  /\ meta.pages_allocated = FileLen(State)
  /\ [][/\ meta'.pages_allocated = Cardinality(DOMAIN file')
        /\ meta'.pages_allocated >= meta.pages_allocated]_vars

\* C14: the file has grown by three pages or more and two pages of it are
\* on the free-list
C14_Witness ==
  /\ meta.pages_allocated = FileLen(State)
  /\ meta.pages_allocated >= 6
  /\ FreeLen >= 2
  /\ ops >= 5

\* C15: in any interleaving of alloc_page and free_page calls that frees
\* only pointers alloc_page returned and that were not freed since,
\* alloc_page never returns page 0, 1 or 2 nor a pointer handed out and not
\* freed, and every page handed out and not freed holds the page written
\* there by alloc_page: get_page returns it, also after open.
C15_PayloadKept ==
  [][/\ call'.op = "alloc" =>
          call'.ret \notin {METADATA_IDX, DEFAULT_ROOT_IDX, DEFAULT_PAGE0_IDX}
                             \cup DOMAIN owned
     /\ err' = "ok"
     /\ \A p \in DOMAIN owned' :
          /\ get_page_err(open([State EXCEPT !.file = file']), p, FREE_PAGE_T) = "ok"
          /\ file'[p] = owned'[p]]_vars

\* C15: the file was reopened while the caller holds three pages, both
\* payloads among them, and a page it freed is waiting on the free-list
C15_Witness ==
  /\ call.op = "open"
  /\ Cardinality(DOMAIN owned) >= 3
  /\ {owned[p].next_free_page : p \in DOMAIN owned} = Payloads
  /\ fstack # <<>>
  /\ \A p \in DOMAIN owned : file[p] = owned[p]

\* C16: persistence ordering in alloc_page: in both branches the page is
\* written at ptr before the updated metadata is written to page 0 (the
\* metadata write follows the data write).
C16_DataBeforeMeta ==
  call.op = "alloc" =>
    /\ \E i \in 1..Len(wlog) : wlog[i] = call.ret
    /\ \E j \in 1..Len(wlog) : wlog[j] = METADATA_IDX
    /\ \A i, j \in 1..Len(wlog) :
         (wlog[i] = call.ret /\ wlog[j] = METADATA_IDX) => i < j

\* what alloc_page does: page 0 is written first, then the page at ptr
C16_MetaBeforeData ==
  call.op = "alloc" => wlog = <<METADATA_IDX, call.ret>>

\* C17: init produces exactly three pages: metadata with next_free_page
\* null, root_page 1, data_head = data_tail = 2, pages_allocated 3, depth 1;
\* an empty directory at page 1 with pointers[0] = 2; an empty leaf at page 2
\* with next = prev = null.  On this fresh tree check_tree succeeds, get is
\* absent for every key and iter yields nothing.
C17_FreshTree ==
  ops = 0 =>
    /\ DOMAIN file = 0..2
    /\ meta = [type |-> META_PAGE_T, next_free_page |-> 0, root_page |-> 1,
               data_head |-> 2, data_tail |-> 2, pages_allocated |-> 3, depth |-> 1]
    /\ file[0] = meta
    /\ file[1].type = DIR_PAGE_T /\ Dir_count(file[1]) = 0 /\ PtrAt(file[1], 0) = 2
    /\ file[2].type = LEAF_PAGE_T /\ Leaf_count(file[2]) = 0
    /\ file[2].next = 0 /\ file[2].prev = 0
    /\ check_tree(State) = "ok"
    /\ \A k \in Keys : get(State, k) = [err |-> "ok", value |-> None]
    /\ iter(State).err = "ok" /\ iter(State).items = <<>>

\* C17: the tree as init leaves it, before any other call
C17_Witness ==
  /\ ops = 0
  /\ call.op = "init"
  /\ err = "ok"
  /\ FileLen(State) = 3
  /\ LiveKeys = {}

\* the leaf that find_page reaches for key k
TargetLeaf(k) == Last(find_page(State, k).path)

\* the step is a put of a live key that overwrites the value in its leaf and
\* does nothing else: one write, of that leaf; same metadata, same file
\* length, every other page (directories, other leaves) as before
UpdatedInPlace ==
  LET k == call'.arg
      leaf == TargetLeaf(k)
  IN /\ err' = "ok"
     /\ wlog' = <<leaf>>
     /\ meta' = meta
     /\ DOMAIN file' = DOMAIN file
     /\ \A p \in DOMAIN file \ {leaf} : file'[p] = file[p]
     /\ Leaf_count(file'[leaf]) = Leaf_count(file[leaf])
     /\ file'[leaf].next = file[leaf].next /\ file'[leaf].prev = file[leaf].prev
     /\ Leaf_find_value(file'[leaf], k) = live'[k]

\* C18: put(k, v) for a key k that already exists in its target leaf updates
\* in place: it overwrites the value and writes only that leaf, performs no
\* split, allocates no page, and leaves every directory page, the leaf chain
\* and the metadata unchanged - also when the target leaf is full.
C18_UpdateInPlace ==
  [][(call'.op = "put" /\ live[call'.arg] # None) => UpdatedInPlace]_vars

\* what put does: the update is in place when the target leaf is not full
C18_UpdateInPlaceNotFull ==
  [][(/\ call'.op = "put"
      /\ live[call'.arg] # None
      /\ ~Leaf_is_full(file[TargetLeaf(call'.arg)])) => UpdatedInPlace]_vars

\* C19: delete(k) for a key k that is not live is not an error and is a
\* no-op: it returns Ok, writes no page, and leaves the metadata, the
\* free-list and every page of the file unchanged.
C19_DeleteAbsentNoop ==
  [][(call'.op = "delete" /\ live[call'.arg] = None) =>
       /\ err' = "ok"
       /\ wlog' = <<>>
       /\ file' = file
       /\ meta' = meta
       /\ FreeList([State EXCEPT !.file = file', !.meta = meta']) = FreeList(State)]_vars

\* C19: the last call was a delete that wrote nothing, of a key that lies
\* between two live keys of a tree of several leaves
C19_Witness ==
  /\ call.op = "delete"
  /\ wlog = <<>>
  /\ err = "ok"
  /\ \E a, b \in LiveKeys : a < call.arg /\ call.arg < b
  /\ meta.pages_allocated > 3
  /\ Len(TreeLeaves) >= 2

\* C20: the tree shrinks back: after any sequence of puts on a fresh tree
\* (including sequences that raise depth above 1), once every inserted key
\* except one retained key has been deleted, depth is 1, the retained key is
\* still returned by get, and every deleted key is absent.
C20_ShrinksBack ==
  (call.op = "delete" /\ Cardinality(LiveKeys) = 1) =>
    /\ err = "ok"
    /\ meta.depth = 1
    /\ \A k \in LiveKeys : get(State, k) = [err |-> "ok", value |-> ValOf(k)]
    /\ \A k \in Keys \ LiveKeys : get(State, k) = [err |-> "ok", value |-> None]

\* C20: one key is left after the deletes, in a file that has held a tree
\* of depth 2 (two directory levels take 2 * DIR_KEY_COUNT + 2 pages or more)
C20_Witness ==
  /\ call.op = "delete"
  /\ Cardinality(LiveKeys) = 1
  /\ meta.depth = 1
  /\ meta.pages_allocated >= 2 * DIR_KEY_COUNT + 2
  /\ ops >= 2 * (U32_MAX + 1) - 1

\* ---- strictly ascending inserts on a fresh tree ---------------------------
\* put(k, v) with k above every key inserted so far
PutAscending(k, v) ==
  /\ err = "ok"
  /\ \A j \in LiveKeys : j < k
  /\ Install(put(State, k, v))
  /\ live' = [live EXCEPT ![k] = v]
  /\ ops' = ops + 1
  /\ UNCHANGED <<free_vals, trace>>

NextAscend == \E k \in Keys, v \in Vals : PutAscending(k, v)

SpecAscend == InitAlloc /\ [][NextAscend]_vars

\* ---- claims C21 - C30 --------------------------------------------------
\* C21: split boundary.  On a fresh tree the first LEAF_RECORD_COUNT strictly
\* ascending puts allocate nothing, and the put after them causes exactly one
\* leaf split and no directory split: one page has been allocated, depth is
\* still 1, the root directory has count 1, the leaf chain from data_head has
\* length 2 and ends at data_tail, which is the newly allocated leaf, and
\* iter yields all LEAF_RECORD_COUNT + 1 pairs in key order.
C21_SplitBoundary ==
  /\ ops <= LEAF_RECORD_COUNT =>
       /\ meta.pages_allocated = init.meta.pages_allocated
       /\ iter(State).pages = <<DEFAULT_PAGE0_IDX>>
  /\ ops = LEAF_RECORD_COUNT + 1 =>
       /\ err = "ok"
       /\ meta.pages_allocated = init.meta.pages_allocated + 1
       /\ meta.next_free_page = NULL_IDX
       /\ meta.depth = 1
       /\ meta.root_page = DEFAULT_ROOT_IDX
       /\ file[meta.root_page].type = DIR_PAGE_T
       /\ Dir_count(file[meta.root_page]) = 1
       /\ file[meta.root_page].pointers = <<meta.data_head, meta.data_tail>>
       /\ iter(State).err = "ok"
       /\ iter(State).pages = <<meta.data_head, meta.data_tail>>
       /\ meta.data_head = DEFAULT_PAGE0_IDX
       /\ meta.data_tail = init.meta.pages_allocated
       /\ iter(State).items = LivePairs
       /\ Len(LivePairs) = LEAF_RECORD_COUNT + 1

\* C21: LEAF_RECORD_COUNT + 1 ascending puts have been made, and the leaf
\* that was split kept its lower half while the last key went to the new leaf
C21_Witness ==
  /\ ops = LEAF_RECORD_COUNT + 1
  /\ Cardinality(LiveKeys) = LEAF_RECORD_COUNT + 1
  /\ Leaf_count(file[meta.data_head]) = LEAF_RECORD_COUNT \div 2
  /\ Leaf_count(file[meta.data_tail]) = LEAF_RECORD_COUNT + 1 - LEAF_RECORD_COUNT \div 2

\* the call of this step, read off the history: a put that stored a new pair
\* changes live at its key to a value; a call that leaves live as it is
\* is a put of a pair already live or a delete of a key that is not live
StoredKeys == {k \in Keys : live'[k] # live[k] /\ live'[k] # None}

PutKey == CHOOSE k \in StoredKeys : TRUE

\* put(key) has to add an entry to a full root: the leaf found for key is
\* full, and so is every directory from its parent up to the root
RootSplitDue(key) ==
  LET path == find_page(State, key).path
  IN /\ Leaf_is_full(file[Last(path)])
     /\ \A i \in 1..Len(path) - 1 : Dir_is_full(file[path[i]])

\* pointers alloc_page can return in this state
Allocatable(p) == p \in FreeSet(State) \/ p >= meta.pages_allocated

\* the step has split the root; `checked` adds that check_tree passes
RootSplitDone(checked) ==
  LET old_root == meta.root_page
      new_root == meta'.root_page
      sep == split_page(file[old_root]).key
  IN /\ err' = "ok"
     /\ meta'.depth = meta.depth + 1
     /\ Allocatable(new_root)
     /\ file'[new_root].type = DIR_PAGE_T
     /\ Dir_count(file'[new_root]) = 1
     /\ KeyAt(file'[new_root], 0) = sep
     /\ PtrAt(file'[new_root], 0) = old_root
     /\ Allocatable(PtrAt(file'[new_root], 1))
     /\ PtrAt(file'[new_root], 1) # new_root
     /\ file'[old_root].type = DIR_PAGE_T
     /\ file'[PtrAt(file'[new_root], 1)].type = DIR_PAGE_T
     /\ sep \notin Range(file'[old_root].keys)
     /\ sep \notin Range(file'[PtrAt(file'[new_root], 1)].keys)
     /\ checked => check_tree(State') = "ok"

RootSplitStep(checked) ==
  /\ (ops' = ops + 1 /\ StoredKeys # {}) =>
       IF RootSplitDue(PutKey) THEN RootSplitDone(checked)
                               ELSE meta'.depth = meta.depth
  /\ (ops' = ops + 1 /\ live' = live) =>
       \/ meta'.depth = meta.depth
       \/ (\E k \in LiveKeys : RootSplitDue(k)) /\ RootSplitDone(checked)

\* C22 (as claimed): a put that has to add an entry to a full root directory
\* increments depth by exactly 1 and makes root_page a newly allocated
\* directory with count 1, whose key is the separator and whose pointers are
\* the old root and the new sibling directory; check_tree passes right after
\* that put; no other put changes depth.
C22_RootSplit == [][RootSplitStep(TRUE)]_vars

\* the same without the verdict of check_tree
C22_RootSplitStructure == [][RootSplitStep(FALSE)]_vars

\* C23: the engine guarantees capacity by splitting first.  From init, for
\* any sequence of put and delete with arbitrary keys, no operation ends in
\* PageIsFullError (LeafPage::put and DirectoryPage::split_at_ptr never fail
\* inside the engine) and no assertion fails; in particular the two halves
\* of every full page the next put may split are not full.
C23_CapacityBySplitting ==
  /\ err \notin {"PageIsFull", "assert"}
  /\ WellFormed
  /\ \A j \in 1..Len(TreeLeaves) :
       LET p == file[TreeLeaves[j]]
       IN Leaf_is_full(p) =>
            ~Leaf_is_full(Leaf_split(p).page) /\ ~Leaf_is_full(Leaf_split(p).new_page)
  /\ \A j \in 1..Len(TreeDirs) :
       LET p == file[TreeDirs[j]]
       IN Dir_is_full(p) =>
            ~Dir_is_full(split_page(p).page) /\ ~Dir_is_full(split_page(p).new_page)

\* C23: a full root has been split (which takes a leaf split under it), a
\* page has been merged away by a delete, and the tree holds a full leaf
\* and a directory with DIR_KEY_COUNT / 2 keys or more
C23_Witness ==
  /\ err = "ok"
  /\ meta.depth = 2
  /\ FreeLen >= 1
  /\ \E j \in 1..Len(TreeLeaves) : Leaf_is_full(file[TreeLeaves[j]])
  /\ \E j \in 1..Len(TreeDirs) : Dir_count(file[TreeDirs[j]]) >= DIR_KEY_COUNT \div 2

\* ---- the page interface as a caller uses it -------------------------------
\* put_page(ptr, &FreePage::init(payload)) on any page of the file or the
\* first page past its end (FreePage is the test's placeholder page)
PutPageT(ptr, payload) ==
  /\ err = "ok"
  /\ ops < MaxPageOps
  /\ \E s \in {put_page(State, ptr, FreePage_init(payload))} :
        Install(s) /\ Traced("put_page", ptr, NULL_IDX, s)
  /\ ops' = ops + 1
  /\ UNCHANGED <<live, free_vals, owned, fstack>>

PageTypes == {META_PAGE_T, DIR_PAGE_T, LEAF_PAGE_T, FREE_PAGE_T}

\* get_page::<T>(ptr) for a page of the file; ret is [t, page]
GetPageT(ptr, t) ==
  /\ err = "ok"
  /\ call.op # "get_page"
  /\ ptr \in DOMAIN file
  /\ \E g \in {get_page(State, ptr, t)} :
        /\ Install(g.s)
        /\ call' = [op |-> "get_page", arg |-> ptr, ret |-> [t |-> t, page |-> g.page]]
        /\ wlog' = g.s.log
  /\ UNCHANGED <<live, ops, free_vals, owned, fstack>>

NextPages ==
  \/ \E ptr \in 0..FileLen(State), payload \in Payloads : PutPageT(ptr, payload)
  \/ \E ptr \in 0..FileLen(State), t \in PageTypes : GetPageT(ptr, t)
  \/ ReopenT

SpecPages == InitAlloc /\ [][NextPages]_vars

\* the tag check of get_page::<T>: the last call was a get_page, and it failed
\* exactly if the tag stored at ptr differs from T's, else it returned the
\* stored page
GetPageEnforcesTag ==
  call.op = "get_page" =>
    IF file[call.arg].type # call.ret.t
      THEN err = "assert"
      ELSE err = "ok" /\ call.ret.page = file[call.arg]

\* C24 (as claimed): reading a page enforces the type tag.  get_page::<T>(ptr),
\* and open, which reads page 0 as metadata, is a fatal error whenever the tag
\* stored in the page differs from T's EXPECTED_PAGE_TYPE, and returns the
\* stored page otherwise.
C24_TagEnforced ==
  /\ GetPageEnforcesTag
  /\ call.op = "open" =>
       IF file[METADATA_IDX].type # META_PAGE_T
         THEN err = "assert"
         ELSE err = "ok" /\ meta = file[METADATA_IDX]

\* the part of C24 that is about get_page, and open of a file whose page 0
\* carries the metadata tag
C24_GetPageTagEnforced ==
  /\ GetPageEnforcesTag
  /\ (call.op = "open" /\ file[METADATA_IDX].type = META_PAGE_T) =>
       err = "ok" /\ meta = file[METADATA_IDX]

\* ---- single calls on given inputs --------------------------------------
\* The inputs of a function are drawn in the initial state, as
\* call = [op |-> "given", arg |-> the receiver]; the action that applies
\* the function records the receiver with the arguments in call.arg and the
\* result in call.ret.  The tree is left as init wrote it.
Given(receivers) ==
  /\ meta = init.meta
  /\ file = init.file
  /\ err = "ok"
  /\ bad_free = FALSE
  /\ live = [k \in Keys |-> None]
  /\ ops = 0
  /\ free_vals = FALSE
  /\ call \in {[op |-> "given", arg |-> r, ret |-> NULL_IDX] : r \in receivers}
  /\ wlog = <<>>
  /\ owned = <<>>
  /\ fstack = <<>>

Applied(op, arg, ret) ==
  /\ call.op = "given"
  /\ call' = [op |-> op, arg |-> arg, ret |-> ret]
  /\ UNCHANGED <<file, meta, err, bad_free, live, ops, free_vals, wlog, owned, fstack>>

\* the elements of a set of numbers in ascending order
RECURSIVE Ascending(_)
Ascending(S) ==
  IF S = {} THEN <<>>
  ELSE LET m == CHOOSE x \in S : \A y \in S : x <= y
       IN <<m>> \o Ascending(S \ {m})

\* the sequences of at most n pairs <<key, value>> with strictly ascending keys
SortedPairs(n) ==
  UNION {{[i \in 1..Cardinality(S) |-> <<Ascending(S)[i], v[Ascending(S)[i]]>>] :
            v \in [S -> Vals]} :
         S \in {T \in SUBSET Keys : Cardinality(T) <= n}}

\* ---- p1_binary_search_solution: data_file.rs ------------------------------
\* DataFile::open of a file holding `records`, a non-empty sequence of
\* <<key, value>>: min_key and max_key are the keys of the first and the
\* last record
DataFile_open(records) ==
  [records |-> records, number_of_records |-> Len(records),
   min_key |-> records[1][1], max_key |-> records[Len(records)][1]]

\* returns [err, some, rec]: Ok(Some(rec)), Ok(None), or a failed assertion
Some(rec) == [err |-> "ok", some |-> TRUE, rec |-> rec]

NoRecord == [err |-> "ok", some |-> FALSE, rec |-> <<>>]

Panic == [err |-> "assert", some |-> FALSE, rec |-> <<>>]

DataFile_get(f, idx) ==
  IF ~(idx < f.number_of_records) THEN Panic ELSE Some(f.records[idx + 1])

\* mutant: the upper bound is moved below the split record
RECURSIVE find_loop_below(_, _, _, _)
find_loop_below(f, key, low_idx, high_idx) ==
  IF low_idx < high_idx
    THEN LET split_idx == (high_idx - low_idx) \div 2 + low_idx
             split_record == DataFile_get(f, split_idx)
         IN IF split_record.err # "ok" THEN split_record
            ELSE IF split_record.rec[1] = key THEN split_record
            ELSE IF split_record.rec[1] < key
              THEN find_loop_below(f, key, split_idx + 1, high_idx)
              ELSE IF split_idx = 0 THEN Panic
              ELSE find_loop_below(f, key, low_idx, split_idx - 1)
    ELSE DataFile_get(f, low_idx)

\* the while loop of find and the return that follows it
RECURSIVE find_loop(_, _, _, _)
find_loop(f, key, low_idx, high_idx) ==
  IF low_idx < high_idx
    THEN LET split_idx == (high_idx - low_idx) \div 2 + low_idx
             split_record == DataFile_get(f, split_idx)
         IN IF split_record.err # "ok" THEN split_record
            ELSE IF split_record.rec[1] = key THEN split_record
            ELSE IF split_record.rec[1] < key
              THEN IF ~(split_idx + 1 > low_idx) THEN Panic
                   ELSE find_loop(f, key, split_idx + 1, high_idx)
              ELSE IF ~(split_idx < high_idx) THEN Panic
                   ELSE find_loop(f, key, low_idx, split_idx)
    ELSE DataFile_get(f, low_idx)

DataFile_find(f, key) ==
  IF key <= f.min_key THEN DataFile_get(f, 0)
  ELSE IF key > f.max_key THEN NoRecord
  ELSE find_loop(f, key, 0, f.number_of_records - 1)

DataFiles == {DataFile_open(r) : r \in SortedPairs(MaxRecords) \ {<<>>}}

Find(key) ==
  Applied("find", [self |-> call.arg, key |-> key], DataFile_find(call.arg, key))

NextFind == \E key \in Keys : Find(key)

InitFind == Given(DataFiles)

SpecFind == InitFind /\ [][NextFind]_vars

\* C25: on a file of records sorted by strictly ascending key, find(key)
\* returns the record whose key equals key if there is one, otherwise the
\* record with the smallest key greater than key, and None exactly when key
\* is greater than the key of the last record; the search loop ends and its
\* progress assertions do not fail.
C25_FindCeiling ==
  call.op = "find" =>
    LET records == call.arg.self.records
        key == call.arg.key
        at_or_above == {i \in 1..Len(records) : records[i][1] >= key}
    IN /\ call.ret.err = "ok"
       /\ call.ret.some <=> at_or_above # {}
       /\ call.ret.some <=> key <= call.arg.self.max_key
       /\ call.ret.some =>
            \E i \in at_or_above :
               /\ call.ret.rec = records[i]
               /\ \A j \in at_or_above : records[i][1] <= records[j][1]

\* C25: a key strictly between two neighbouring keys of the upper half of a
\* file of MaxRecords records has been searched, and the record above it found
C25_Witness ==
  /\ call.op = "find"
  /\ Len(call.arg.self.records) = MaxRecords
  /\ call.ret.some
  /\ call.ret.rec[1] > call.arg.key
  /\ call.ret.rec \in {call.arg.self.records[i] : i \in (MaxRecords \div 2 + 1)..MaxRecords}

\* ---- dir_page.rs: single calls on given pages -------------------------
\* the directory pages with strictly ascending keys, of every count up to
\* DIR_KEY_COUNT; the pointers are 1, 2, ... from left to right
DirPages ==
  {[DirectoryPage_init EXCEPT !.keys = Ascending(S),
                              !.pointers = [i \in 1..Cardinality(S) + 1 |-> i]] :
     S \in {T \in SUBSET Keys : Cardinality(T) <= DIR_KEY_COUNT}}

\* whether the loop of find_pointer_idx leaves through its `return mid`
RECURSIVE find_pointer_idx_returns_mid(_, _, _, _)
find_pointer_idx_returns_mid(p, key, start, end) ==
  IF start < end - 1
    THEN LET mid == (end - start) \div 2 + start
         IN IF key < KeyAt(p, mid)
              THEN find_pointer_idx_returns_mid(p, key, start, mid)
              ELSE IF start = mid /\ key < KeyAt(p, mid + 1)
                THEN TRUE
                ELSE find_pointer_idx_returns_mid(p, key, mid, end)
    ELSE FALSE

FindPointerIdx(key) ==
  Applied("find_pointer_idx", [self |-> call.arg, key |-> key],
          [idx |-> find_pointer_idx(call.arg, key),
           returns_mid |-> /\ ~(Dir_count(call.arg) = 0 \/ key < KeyAt(call.arg, 0))
                           /\ find_pointer_idx_returns_mid(call.arg, key, 0,
                                                           Dir_count(call.arg))])

\* the pointer added by split_at_ptr
NewPtr == DIR_KEY_COUNT + 2

SplitAtPtr(split_ptr, split_key) ==
  Applied("split_at_ptr",
          [self |-> call.arg, split_ptr |-> split_ptr, split_key |-> split_key,
           new_ptr |-> NewPtr],
          split_at_ptr(call.arg, split_ptr, split_key, NewPtr))

SplitPage ==
  /\ call.op = "given"
  /\ Dir_is_full(call.arg)
  /\ Applied("split_page", [self |-> call.arg], split_page(call.arg))

NextDir ==
  \/ \E key \in Keys : FindPointerIdx(key)
  \/ \E split_ptr \in 1..(DIR_KEY_COUNT + 1), split_key \in Keys :
        SplitAtPtr(split_ptr, split_key)
  \/ SplitPage

InitDir == Given(DirPages)

SpecDir == InitDir /\ [][NextDir]_vars

\* C26: for every page with strictly ascending keys[0..count) and every key,
\* find_pointer_idx(key) returns the smallest i such that key < keys[i], or
\* count if there is no such i; the result is in [0, count], a key equal to
\* keys[j] is routed to child j + 1, and the early return inside the loop
\* (start == mid) is never taken.
C26_FindPointerIdx ==
  call.op = "find_pointer_idx" =>
    LET p == call.arg.self
        key == call.arg.key
        above == {i \in 0..Dir_count(p) - 1 : key < KeyAt(p, i)}
        idx == call.ret.idx
    IN /\ idx \in 0..Dir_count(p)
       /\ IF above = {} THEN idx = Dir_count(p)
          ELSE idx \in above /\ \A i \in above : idx <= i
       /\ \A j \in 0..Dir_count(p) - 1 : key = KeyAt(p, j) => idx = j + 1
       /\ ~call.ret.returns_mid

\* C26: the key searched is a key of a full page, beyond the first, so the
\* loop has run
C26_Witness ==
  /\ call.op = "find_pointer_idx"
  /\ Dir_count(call.arg.self) = DIR_KEY_COUNT
  /\ \E j \in 1..DIR_KEY_COUNT - 1 :
       call.arg.key = KeyAt(call.arg.self, j) /\ call.ret.idx = j + 1

\* the key that separates the halves of a full child page when it is split
ChildSplitKey(c) ==
  IF c.type = LEAF_PAGE_T THEN Leaf_get(Leaf_split(c).new_page, 0)[1]
  ELSE split_page(c).key

ChildIsFull(c) == IF c.type = LEAF_PAGE_T THEN Leaf_is_full(c) ELSE Dir_is_full(c)

\* the half of the split parent that split_dir_entry picks for split_key
ChosenHalf(parent, split_key) ==
  IF split_key < split_page(parent).key
    THEN split_page(parent).page
    ELSE split_page(parent).new_page

\* C27: split_dir_entry after a parent split.  No assertion of split_at_ptr
\* has failed in any sequence of puts and deletes, and for every full child
\* of a full directory of the tree (the pages the next put may split): the
\* half picked by comparing the child's split key with the parent's
\* separator is the half that took over the child's pointer, and the slot
\* found there for the split key holds that pointer.
C27_ChildInChosenHalf ==
  /\ err # "assert"
  /\ WellFormed
  /\ \A j \in 1..Len(TreeDirs) :
       LET parent == file[TreeDirs[j]]
       IN Dir_is_full(parent) =>
            \A i \in 0..Dir_count(parent) :
               LET child == file[PtrAt(parent, i)]
                   half == ChosenHalf(parent, ChildSplitKey(child))
               IN ChildIsFull(child) =>
                    /\ PtrAt(half, find_pointer_idx(half, ChildSplitKey(child)))
                         = PtrAt(parent, i)
                    /\ split_at_ptr(half, PtrAt(parent, i), ChildSplitKey(child),
                                    meta.pages_allocated).err = "ok"
                    /\ (half = split_page(parent).page) <=> (i <= DIR_KEY_COUNT \div 2)

\* C27: the full root has just been split and the entry of the split leaf
\* went into the new half: the old root kept DIR_KEY_COUNT / 2 keys and its
\* new sibling holds one key more than split_page gave it
C27_Witness ==
  /\ err = "ok"
  /\ meta.depth = 2
  /\ Dir_count(file[meta.root_page]) = 1
  /\ Dir_count(file[PtrAt(file[meta.root_page], 0)]) = DIR_KEY_COUNT \div 2
  /\ Dir_count(file[PtrAt(file[meta.root_page], 1)])
       = DIR_KEY_COUNT - DIR_KEY_COUNT \div 2

\* the page `q` is the page `p` with (split_key, new_ptr) inserted behind
\* pointer index i: keys[i..] and pointers[i+1..] moved right by one, every
\* other entry where it was
InsertedBehind(p, q, i, split_key, new_ptr) ==
  /\ q.type = p.type
  /\ Dir_count(q) = Dir_count(p) + 1
  /\ Len(q.pointers) = Len(p.pointers) + 1
  /\ \A j \in 0..i - 1 : KeyAt(q, j) = KeyAt(p, j)
  /\ KeyAt(q, i) = split_key
  /\ \A j \in i..Dir_count(p) - 1 : KeyAt(q, j + 1) = KeyAt(p, j)
  /\ \A j \in 0..i : PtrAt(q, j) = PtrAt(p, j)
  /\ PtrAt(q, i + 1) = new_ptr
  /\ \A j \in i + 1..Dir_count(p) : PtrAt(q, j + 1) = PtrAt(p, j)

\* split_key lies in the key range of the child at pointer index i
InChildRange(p, i, split_key) ==
  /\ i > 0 => KeyAt(p, i - 1) <= split_key
  /\ i < Dir_count(p) => split_key < KeyAt(p, i)

\* the last call was split_at_ptr and did what is described for every
\* pointer index i of old_ptr (in_range: only when split_key lies in the key
\* range of that child)
SplitAtPtrDescribed(in_range) ==
  call.op = "split_at_ptr" =>
    LET p == call.arg.self
    IN IF Dir_count(p) = DIR_KEY_COUNT
         THEN call.ret = [err |-> "PageIsFull", page |-> p]
         ELSE \A i \in 0..Dir_count(p) :
                (/\ PtrAt(p, i) = call.arg.split_ptr
                 /\ in_range => InChildRange(p, i, call.arg.split_key)) =>
                  /\ call.ret.err = "ok"
                  /\ InsertedBehind(p, call.ret.page, i, call.arg.split_key,
                                    call.arg.new_ptr)

\* C28 (as claimed): split_at_ptr(old_ptr, split_key, new_ptr) on a non-full
\* page locates i such that pointers[i] = old_ptr, shifts keys[i..] and
\* pointers[i+1..] right by one, sets keys[i] = split_key and pointers[i+1] =
\* new_ptr and increments count, leaving all other entries in their relative
\* order; on a full page it fails with PageIsFullError and leaves the page
\* unchanged.
C28_SplitAtPtr == SplitAtPtrDescribed(FALSE)

\* C28 (amended): the same, for a split_key in the key range of the child
\* old_ptr, keys[i-1] <= split_key < keys[i]: the slot is located with
\* find_pointer_idx(split_key).  For any other split_key the assertion
\* pointers[idx] == split_ptr fails.
C28_SplitAtPtrInRange ==
  /\ SplitAtPtrDescribed(TRUE)
  /\ call.op = "split_at_ptr" =>
       LET p == call.arg.self
       IN \A i \in 0..Dir_count(p) :
            (/\ Dir_count(p) < DIR_KEY_COUNT
             /\ PtrAt(p, i) = call.arg.split_ptr
             /\ ~InChildRange(p, i, call.arg.split_key)) => call.ret.err = "assert"

\* C28: a pair has been inserted behind a pointer in the middle of a page
\* that had one free slot
C28_Witness ==
  /\ call.op = "split_at_ptr"
  /\ Dir_count(call.arg.self) = DIR_KEY_COUNT - 1
  /\ call.arg.split_ptr \in 2..DIR_KEY_COUNT - 1
  /\ call.ret.err = "ok"
  /\ Dir_count(call.ret.page) = DIR_KEY_COUNT
  /\ call.arg.split_key \notin Range(call.arg.self.keys)

\* C29: split_page on a full page, with M = DIR_KEY_COUNT / 2: this page
\* retains keys[0..M] and pointers[0..M+1] (count = M), the new page receives
\* keys[M+1..] and pointers[M+1..] (count = DIR_KEY_COUNT - M - 1), the
\* separator returned is the old keys[M] and is an active key of neither
\* page, and neither page is underfull.
C29_SplitPage ==
  call.op = "split_page" =>
    LET p == call.arg.self
        M == DIR_KEY_COUNT \div 2
        mine == call.ret.page
        new == call.ret.new_page
    IN /\ Dir_count(mine) = M
       /\ Len(mine.pointers) = M + 1
       /\ \A j \in 0..M - 1 : KeyAt(mine, j) = KeyAt(p, j)
       /\ \A j \in 0..M : PtrAt(mine, j) = PtrAt(p, j)
       /\ Dir_count(new) = DIR_KEY_COUNT - M - 1
       /\ Len(new.pointers) = DIR_KEY_COUNT - M
       /\ \A j \in 0..Dir_count(new) - 1 : KeyAt(new, j) = KeyAt(p, M + 1 + j)
       /\ \A j \in 0..Dir_count(new) : PtrAt(new, j) = PtrAt(p, M + 1 + j)
       /\ mine.type = DIR_PAGE_T /\ new.type = DIR_PAGE_T
       /\ call.ret.key = KeyAt(p, M)
       /\ call.ret.key \notin Range(mine.keys) \cup Range(new.keys)
       /\ ~Dir_is_underfull(mine) /\ ~Dir_is_underfull(new)

\* C29: a full page that holds the smallest and the largest key has been split
C29_Witness ==
  /\ call.op = "split_page"
  /\ Dir_count(call.arg.self) = DIR_KEY_COUNT
  /\ KeyAt(call.arg.self, 0) = 0
  /\ KeyAt(call.arg.self, DIR_KEY_COUNT - 1) = U32_MAX
  /\ Dir_count(call.ret.page) + Dir_count(call.ret.new_page) = DIR_KEY_COUNT - 1

\* ---- leaf_page.rs: single calls on given pages --------------------------
\* the leaf pages with strictly ascending keys, of every count up to
\* LEAF_RECORD_COUNT
LeafPages ==
  {[LeafPage_init EXCEPT !.key_value = kv] : kv \in SortedPairs(LEAF_RECORD_COUNT)}

LeafPut(key, value) ==
  Applied("LeafPage::put", [self |-> call.arg, key |-> key, value |-> value],
          Leaf_put(call.arg, key, value))

NextLeaf == \E key \in Keys, value \in Vals : LeafPut(key, value)

InitLeaf == Given(LeafPages)

SpecLeaf == InitLeaf /\ [][NextLeaf]_vars

\* C30: LeafPage::put(key, value) returns PageIsFullError if and only if the
\* key is not on the page and count = LEAF_RECORD_COUNT, and then the page is
\* unchanged; an update of a key on the page never fails and changes only
\* that key's value; an insert places the pair at the position that keeps
\* the keys strictly ascending, every other pair stays, and count grows by 1.
C30_LeafPut ==
  call.op = "LeafPage::put" =>
    LET p == call.arg.self
        key == call.arg.key
        q == call.ret.page
        on_page == \E i \in 1..Leaf_count(p) : p.key_value[i][1] = key
        below == Cardinality({i \in 1..Leaf_count(p) : p.key_value[i][1] < key})
    IN /\ call.ret.err \in {"ok", "PageIsFull"}
       /\ call.ret.err = "PageIsFull" <=>
            (~on_page /\ Leaf_count(p) = LEAF_RECORD_COUNT)
       /\ call.ret.err = "PageIsFull" => q = p
       /\ q.type = p.type /\ q.next = p.next /\ q.prev = p.prev
       /\ on_page =>
            /\ Leaf_count(q) = Leaf_count(p)
            /\ \A i \in 1..Leaf_count(p) :
                 q.key_value[i] = IF p.key_value[i][1] = key
                                    THEN <<key, call.arg.value>>
                                    ELSE p.key_value[i]
       /\ (~on_page /\ call.ret.err = "ok") =>
            /\ Leaf_count(q) = Leaf_count(p) + 1
            /\ q.key_value[below + 1] = <<key, call.arg.value>>
            /\ \A i \in 1..below : q.key_value[i] = p.key_value[i]
            /\ \A i \in below + 1..Leaf_count(p) : q.key_value[i + 1] = p.key_value[i]
            /\ \A i \in 1..Leaf_count(q) - 1 : q.key_value[i][1] < q.key_value[i + 1][1]

\* C30: a new pair has been inserted in front of the pairs of a page, which
\* is full afterwards
C30_Witness ==
  /\ call.op = "LeafPage::put"
  /\ call.ret.err = "ok"
  /\ Leaf_count(call.arg.self) = LEAF_RECORD_COUNT - 1
  /\ Leaf_count(call.ret.page) = LEAF_RECORD_COUNT
  /\ call.ret.page.key_value[1] = <<call.arg.key, call.arg.value>>

\* ---- claims C31 - C39 ----------------------------------------------------
\* ---- dir_page.rs: single calls on two sibling pages ----------------------
\* two sibling directories with the key that separates them in the parent:
\* an ascending run of keys cut at one of them, the pointers numbered from
\* left to right
Siblings ==
  {[left |-> [DirectoryPage_init EXCEPT
                !.keys = SubSeq(Ascending(S), 1, i - 1),
                !.pointers = [j \in 1..i |-> j]],
    parent_key |-> Ascending(S)[i],
    right |-> [DirectoryPage_init EXCEPT
                 !.keys = SubSeq(Ascending(S), i + 1, Cardinality(S)),
                 !.pointers = [j \in 1..Cardinality(S) - i + 1 |-> i + j]]] :
     <<S, i>> \in {x \in (SUBSET Keys) \X (1..DIR_KEY_COUNT + 1) :
                     /\ x[2] <= Cardinality(x[1])
                     /\ Cardinality(x[1]) - x[2] <= DIR_KEY_COUNT}}

\* right.steal_high_from(left, parent_key)
StealHighFrom ==
  /\ call.op = "given"
  /\ Applied("steal_high_from",
             [self |-> call.arg.right, other |-> call.arg.left,
              parent_key |-> call.arg.parent_key, left |-> call.arg.left,
              right |-> call.arg.right],
             LET r == steal_high_from(call.arg.right, call.arg.left, call.arg.parent_key)
             IN [err |-> r.err, key |-> r.key, left |-> r.other, right |-> r.page])

\* left.steal_low_from(right, parent_key)
StealLowFrom ==
  /\ call.op = "given"
  /\ Applied("steal_low_from",
             [self |-> call.arg.left, other |-> call.arg.right,
              parent_key |-> call.arg.parent_key, left |-> call.arg.left,
              right |-> call.arg.right],
             LET r == steal_low_from(call.arg.left, call.arg.right, call.arg.parent_key)
             IN [err |-> r.err, key |-> r.key, left |-> r.page, right |-> r.other])

NextSiblings == StealHighFrom \/ StealLowFrom

InitSiblings == Given(Siblings)

SpecSiblings == InitSiblings /\ [][NextSiblings]_vars

\* the keys of two siblings and their separator, from left to right
InOrderKeys(left, sep, right) == left.keys \o <<sep>> \o right.keys

\* C31: for sibling directories L and R separated by the parent key s, both
\* R.steal_high_from(L, s) and L.steal_low_from(R, s) leave the sequence
\* (L.keys, separator, R.keys), with the returned key as the new separator,
\* and the sequence (L.pointers, R.pointers) as they were; one key and one
\* pointer move, the count of the borrower grows by one and the count of the
\* lender shrinks by one.  The borrow takes place when the borrower is not
\* full and the lender has a key; otherwise the call fails its assertion.
C31_BorrowKeepsOrder ==
  call.op \in {"steal_high_from", "steal_low_from"} =>
    LET L == call.arg.left
        R == call.arg.right
        high == call.op = "steal_high_from"
    IN /\ call.ret.err = "ok" <=>
            (Dir_count(call.arg.self) < DIR_KEY_COUNT /\ Dir_count(call.arg.other) > 0)
       /\ call.ret.err # "ok" =>
            /\ call.ret.err = "assert"
            /\ call.ret.left = L /\ call.ret.right = R
       /\ call.ret.err = "ok" =>
            /\ InOrderKeys(call.ret.left, call.ret.key, call.ret.right)
                 = InOrderKeys(L, call.arg.parent_key, R)
            /\ call.ret.left.pointers \o call.ret.right.pointers = L.pointers \o R.pointers
            /\ Dir_count(call.ret.left) = Dir_count(L) + (IF high THEN -1 ELSE 1)
            /\ Dir_count(call.ret.right) = Dir_count(R) + (IF high THEN 1 ELSE -1)
            /\ Len(call.ret.left.pointers) = Dir_count(call.ret.left) + 1
            /\ Len(call.ret.right.pointers) = Dir_count(call.ret.right) + 1
            /\ call.ret.left.type = L.type /\ call.ret.right.type = R.type

\* C31: the left page has borrowed the lowest key and pointer of a right
\* sibling that keeps keys of its own, and the separator has changed
C31_Witness ==
  /\ call.op = "steal_low_from"
  /\ call.ret.err = "ok"
  /\ Dir_count(call.arg.left) >= 1
  /\ Dir_count(call.ret.right) >= 1
  /\ call.ret.key # call.arg.parent_key
  /\ call.ret.right.pointers[1] = call.arg.right.pointers[2]

\* ---- merges, seen in the step that performs them ---------------------------
\* the page at ptr is a page of the tree before the step and on the free-list
\* after it
MergedAway(ptr) ==
  /\ ptr # meta.root_page
  /\ ptr \in Range(TreeDirs) \cup Range(TreeLeaves)
  /\ file'[ptr].type = FREE_PAGE_T

\* the left neighbour of the directory at ptr under their parent (NULL_IDX
\* when ptr is the parent's first pointer)
LeftSibling(ptr) ==
  LET parent == CHOOSE d \in Range(TreeDirs) : ptr \in Range(file[d].pointers)
      i == CHOOSE j \in 1..Len(file[parent].pointers) : file[parent].pointers[j] = ptr
  IN IF i = 1 THEN NULL_IDX ELSE file[parent].pointers[i - 1]

\* a directory leaves the tree only as the right page of a merge (the root is
\* freed by the collapse); the page that took it in is its left sibling,
\* holding the keys of both and the parent key between them.  One of the two
\* has lost a key earlier in the same delete.
DirMergeFits ==
  \A ptr \in Range(TreeDirs) :
    MergedAway(ptr) =>
      LET keep == LeftSibling(ptr)
      IN /\ keep # NULL_IDX
         /\ file'[keep].type = DIR_PAGE_T
         /\ Dir_count(file'[keep]) = (Dir_count(file[keep]) + Dir_count(file[ptr]) - 1) + 1
         /\ Dir_count(file'[keep]) <= DIR_KEY_COUNT
         /\ Len(file'[keep].pointers) = Dir_count(file'[keep]) + 1

\* a leaf leaves the tree only as the right page of a merge; the page that
\* took it in is its predecessor in the chain.  The deleted key was on one
\* of the two.
LeafMergeFits ==
  \A ptr \in Range(TreeLeaves) :
    MergedAway(ptr) =>
      LET keep == file[ptr].prev
      IN /\ keep # NULL_IDX
         /\ file'[keep].type = LEAF_PAGE_T
         /\ Leaf_count(file'[keep]) = Leaf_count(file[keep]) + Leaf_count(file[ptr]) - 1
         /\ Leaf_count(file'[keep]) <= LEAF_RECORD_COUNT

\* C32: whenever merge_dir_page merges two sibling directories, the combined
\* count left.count + right.count + 1 is at most DIR_KEY_COUNT, and whenever
\* delete merges two leaves, left.count + right.count is at most
\* LEAF_RECORD_COUNT: no merge assertion fails and no index runs past a page
\* array.
C32_MergeFits ==
  [][/\ err' # "assert"
     /\ DirMergeFits
     /\ LeafMergeFits]_vars

\* C32: the two directories under the root have been merged and the root has
\* been collapsed onto the merged page, which holds the keys of both and the
\* key that separated them (the file has grown by the two pages of a root
\* split, and the tree is back at depth 1)
C32_Witness ==
  /\ meta.depth = 1
  /\ meta.pages_allocated >= DIR_KEY_COUNT + 5
  /\ Cardinality(FreeSet(State)) >= 2
  /\ Dir_count(file[meta.root_page]) >= 2

\* ---- the siblings delete turns to ------------------------------------------
\* the pairs of the leaf at ptr without key k
Without(ptr, k) == SelectSeq(file[ptr].key_value, LAMBDA kv : kv[1] # k)

\* the directory that points to the page at ptr
ParentOf(ptr) == CHOOSE d \in Range(TreeDirs) : ptr \in Range(file[d].pointers)

\* the leaf at ptr holds more than the minimum
CanLend(ptr) == Leaf_count(file[ptr]) > LEAF_RECORD_COUNT \div 2

\* The step is a delete of the live key k that leaves its leaf underfull
\* under a parent with more than one pointer, and it has turned to the
\* siblings as follows.  With a left sibling (dir_idx > 0): a pair is taken
\* from the left sibling when it holds more than the minimum, else the leaf
\* is appended to the left sibling and freed, whatever the right sibling
\* holds.  Without one (dir_idx = 0): the same with the right sibling.
\* untouched: the right sibling is not accessed when a left sibling exists;
\* otherwise its records stay and its prev is set to the left sibling when
\* the leaf between them is merged away.
SiblingChoice(untouched) ==
  LET k == call'.arg
      leaf == TargetLeaf(k)
      parent == ParentOf(leaf)
      dir_idx == find_pointer_idx(file[parent], k)
      left == file[leaf].prev
      right == PtrAt(file[parent], dir_idx + 1)
      has_right == dir_idx < Dir_count(file[parent])
  IN (/\ call'.op = "delete"
      /\ live[k] # None
      /\ Leaf_count(file[leaf]) - 1 < LEAF_RECORD_COUNT \div 2
      /\ Dir_count(file[parent]) >= 1) =>
       /\ err' = "ok"
       /\ IF dir_idx > 0
            THEN /\ left = PtrAt(file[parent], dir_idx - 1)
                 /\ IF CanLend(left)
                      THEN /\ file'[left] = [file[left] EXCEPT !.key_value = Front(@)]
                           /\ file'[leaf] = [file[leaf] EXCEPT !.key_value =
                                               <<Last(file[left].key_value)>> \o Without(leaf, k)]
                           /\ file'[parent] = SetKey(file[parent], dir_idx - 1,
                                                     Last(file[left].key_value)[1])
                           /\ has_right => file'[right] = file[right]
                           /\ has_right => right \notin Range(wlog')
                      ELSE /\ file'[leaf].type = FREE_PAGE_T
                           /\ file'[left] = [file[left] EXCEPT
                                               !.key_value = @ \o Without(leaf, k),
                                               !.next = file[leaf].next]
                           /\ has_right =>
                                IF untouched
                                  THEN file'[right] = file[right] /\ right \notin Range(wlog')
                                  ELSE file'[right] = [file[right] EXCEPT !.prev = left]
            ELSE IF CanLend(right)
              THEN /\ file'[right] = [file[right] EXCEPT !.key_value = Tail(@)]
                   /\ file'[leaf] = [file[leaf] EXCEPT !.key_value =
                                       Without(leaf, k) \o <<Head(file[right].key_value)>>]
                   /\ file'[parent] = SetKey(file[parent], 0, file[right].key_value[2][1])
              ELSE /\ file'[right].type = FREE_PAGE_T
                   /\ file'[leaf] = [file[leaf] EXCEPT
                                       !.key_value = Without(leaf, k) \o file[right].key_value,
                                       !.next = file[right].next]

\* C33 (as claimed): when the underfull leaf has a left sibling in its parent
\* (dir_idx > 0), only the left sibling is consulted: if it can lend, one
\* pair is borrowed from it; if it cannot, the leaf is merged with the left
\* sibling without reading the right sibling, even when the right sibling
\* could lend.  The right sibling is consulted (borrow, else merge) only
\* when dir_idx = 0.
C33_LeftOnly == [][SiblingChoice(TRUE)]_vars

\* C33 (amended): the same, except that the merge with the left sibling
\* reads the right sibling and writes it back with prev set to the left
\* sibling; its records play no part and stay as they are.
C33_LeftFirst == [][SiblingChoice(FALSE)]_vars

\* C33: the last call deleted a key whose leaf was appended to its left
\* sibling (every key of the leaf that now covers the key is below it, and a
\* page was freed) while the leaf to the right of it in the same directory
\* holds more than the minimum
C33_Witness ==
  /\ call.op = "delete"
  /\ err = "ok"
  /\ live[call.arg] = None
  /\ meta.next_free_page \in Range(wlog)
  /\ LET keep == TargetLeaf(call.arg)
         next == file[keep].next
     IN /\ keep \in Range(wlog)
        /\ Leaf_count(file[keep]) >= 1
        /\ \A i \in 1..Leaf_count(file[keep]) : file[keep].key_value[i][1] < call.arg
        /\ next # NULL_IDX
        /\ next \in Range(wlog)
        /\ next \in Range(file[ParentOf(keep)].pointers)
        /\ CanLend(next)

\* ---- the root in merge_dir_page ------------------------------------------
\* the state in which merge_dir_page finds a root that has just lost its
\* last key: the root holds pointers[0] alone
RootEmptied ==
  [State EXCEPT !.file[meta.root_page] =
     [DirectoryPage_init EXCEPT !.pointers = <<PtrAt(file[meta.root_page], 0)>>]]

\* merge_dir_page called on the root (ptr_stack = [root]) leaves the tree as
\* it is when the root has a key or depth is 1, and collapses a root without
\* keys at depth > 1
RootCall ==
  LET root == meta.root_page
  IN \A k \in Keys :
       /\ (Dir_count(file[root]) >= 1 \/ meta.depth = 1) =>
            merge_dir_page(State, <<root>>, k) = State
       /\ meta.depth = 1 =>
            merge_dir_page(RootEmptied, <<root>>, k) = RootEmptied
       /\ meta.depth > 1 =>
            LET s == merge_dir_page(RootEmptied, <<root>>, k)
            IN /\ s.err = "ok"
               /\ s.meta.root_page = PtrAt(file[root], 0)
               /\ s.meta.depth = meta.depth - 1
               /\ s.file[root] = FreePage_init(meta.next_free_page)
               /\ s.meta.next_free_page = root
               /\ \A p \in DOMAIN file \ {root, METADATA_IDX} : s.file[p] = file[p]

\* a step that lowers depth is a collapse: the two children of a root with
\* one key were merged, the left one is the new root, depth is one less and
\* the old root is on the free-list
CollapseStep ==
  LET root == meta.root_page
  IN /\ meta'.depth < meta.depth =>
          /\ meta'.depth = meta.depth - 1
          /\ Dir_count(file[root]) = 1
          /\ file'[PtrAt(file[root], 1)].type = FREE_PAGE_T
          /\ meta'.root_page = PtrAt(file[root], 0)
          /\ file'[meta'.root_page].type = DIR_PAGE_T
          /\ root \in FreeSet([State EXCEPT !.file = file', !.meta = meta'])
     /\ (meta'.depth >= meta.depth /\ Dir_count(file[root]) >= 1) =>
          /\ file'[root].type = DIR_PAGE_T
          /\ meta'.depth = meta.depth => meta'.root_page = root

PutNext(k) ==
  /\ call.op # "corrupt"
  /\ PutAscending(k, ValOf(k))

\* put_page of the leaf at ptr with the key of its pair i replaced by k
CorruptLeaf(ptr, i, k) ==
  /\ err = "ok"
  /\ call.op # "corrupt"
  /\ ptr \in Range(TreeLeaves)
  /\ i \in 1..Leaf_count(file[ptr])
  /\ file[ptr].key_value[i][1] # k
  /\ file' = [file EXCEPT ![ptr].key_value[i][1] = k]
  /\ call' = [op |-> "corrupt", arg |-> ptr, ret |-> k]
  /\ UNCHANGED <<meta, err, bad_free, live, ops, free_vals, wlog, owned, fstack>>

\* put_page of the directory at ptr with its key i replaced by k
CorruptDir(ptr, i, k) ==
  /\ err = "ok"
  /\ call.op # "corrupt"
  /\ ptr \in Range(TreeDirs)
  /\ i \in 1..Dir_count(file[ptr])
  /\ file[ptr].keys[i] # k
  /\ file' = [file EXCEPT ![ptr].keys[i] = k]
  /\ call' = [op |-> "corrupt", arg |-> ptr, ret |-> k]
  /\ UNCHANGED <<meta, err, bad_free, live, ops, free_vals, wlog, owned, fstack>>

NextCorrupt ==
  \/ \E k \in Keys : PutNext(k)
  \/ \E ptr \in DOMAIN file, i \in 1..LEAF_RECORD_COUNT, k \in Keys : CorruptLeaf(ptr, i, k)
  \/ \E ptr \in DOMAIN file, i \in 1..DIR_KEY_COUNT, k \in Keys : CorruptDir(ptr, i, k)

SpecCorrupt == InitAlloc /\ [][NextCorrupt]_vars

\* every key of the `steps` levels under ptr lies in the interval [lo, hi)
\* it inherits: the child at pointer index i of a directory inherits
\* [keys[i-1], keys[i]), with lo for the first child and hi for the last.
\* as_walked: the interval as check_tree hands it down, where the child at
\* index count - 1 keeps hi in place of keys[count-1].
RECURSIVE InIntervals(_, _, _, _, _, _)
InIntervals(s, ptr, steps, lo, hi, as_walked) ==
  LET p == s.file[ptr]
  IN IF steps = 0
       THEN \A j \in 1..Leaf_count(p) : lo <= p.key_value[j][1] /\ p.key_value[j][1] < hi
       ELSE /\ \A j \in 1..Dir_count(p) : lo <= p.keys[j] /\ p.keys[j] < hi
            /\ \A i \in 0..Dir_count(p) :
                 InIntervals(s, PtrAt(p, i), steps - 1,
                             IF i = 0 THEN lo ELSE KeyAt(p, i - 1),
                             IF i < Dir_count(p) - 1 \/ (~as_walked /\ i < Dir_count(p))
                               THEN KeyAt(p, i) ELSE hi,
                             as_walked)

\* C35 (as claimed): check_tree is complete for interval violations: for any
\* tree state, corrupted ones included, in which some leaf holds a key
\* outside the interval [low, high) determined by the separators of its
\* ancestors - in particular a key >= the separator immediately to the right
\* of the leaf's pointer in its parent - or some directory holds a separator
\* outside its inherited interval, check_tree returns a diagnostic rather
\* than success.
C35_CheckTreeComplete ==
  (/\ call.op = "corrupt"
   /\ ~InIntervals(State, meta.root_page, meta.depth, 0, U32_MAX + 1, FALSE)) =>
     check_tree(State) # "ok"

\* what check_tree does: it reports every key outside the interval it hands
\* down, which for the child in front of the last key of a directory has the
\* upper end of the directory's own interval
C35_CheckTreeCompleteAsWalked ==
  (/\ call.op = "corrupt"
   /\ ~InIntervals(State, meta.root_page, meta.depth, 0, U32_MAX, TRUE)) =>
     check_tree(State) # "ok"

\* ---- the iterator, one step at a time ----------------------------------------
\* While a BPlusTreeIterator lives it borrows the tree, so no put or delete
\* runs between its steps.  call holds the iterator: arg = [ptr, idx, pages,
\* last] with ptr the leaf it holds, pages the leaves it has read and last
\* the pair returned last (<<0, 0>> before the first); ret is the number of
\* pairs returned.
PutI(k) ==
  /\ call.op = "init"
  /\ ops < MaxIterOps
  /\ Put(k, ValOf(k))

DeleteI(k) ==
  /\ call.op = "init"
  /\ ops < MaxIterOps
  /\ Delete(k)

\* BPlusTree::iter
IterStart ==
  /\ err = "ok"
  /\ call.op = "init"
  /\ call' = IF get_page_err(State, meta.data_head, LEAF_PAGE_T) = "ok"
               THEN [op |-> "iter",
                     arg |-> [ptr |-> meta.data_head, idx |-> 0,
                              pages |-> <<meta.data_head>>, last |-> <<0, 0>>],
                     ret |-> 0]
               ELSE [op |-> "iter_failed", arg |-> NULL_IDX, ret |-> NULL_IDX]
  /\ UNCHANGED <<file, meta, err, bad_free, live, ops, free_vals, wlog, owned, fstack>>

\* mutant: the position on the page is kept when the next leaf is read
IterHop_keep_idx ==
  /\ call.op = "iter"
  /\ call.arg.idx >= Leaf_count(file[call.arg.ptr])
  /\ file[call.arg.ptr].next # NULL_IDX
  /\ call' = IF get_page_err(State, file[call.arg.ptr].next, LEAF_PAGE_T) = "ok"
               THEN [call EXCEPT !.arg.ptr = file[call.arg.ptr].next,
                                 !.arg.pages = Append(@, file[call.arg.ptr].next)]
               ELSE [op |-> "iter_failed", arg |-> call.arg, ret |-> call.ret]
  /\ UNCHANGED <<file, meta, err, bad_free, live, ops, free_vals, wlog, owned, fstack>>

\* next(), one turn of the while loop: the page is used up and has a
\* successor, which is read
IterHop ==
  /\ call.op = "iter"
  /\ call.arg.idx >= Leaf_count(file[call.arg.ptr])
  /\ file[call.arg.ptr].next # NULL_IDX
  /\ call' = IF get_page_err(State, file[call.arg.ptr].next, LEAF_PAGE_T) = "ok"
               THEN [call EXCEPT !.arg.ptr = file[call.arg.ptr].next,
                                 !.arg.idx = 0,
                                 !.arg.pages = Append(@, file[call.arg.ptr].next)]
               ELSE [op |-> "iter_failed", arg |-> call.arg, ret |-> call.ret]
  /\ UNCHANGED <<file, meta, err, bad_free, live, ops, free_vals, wlog, owned, fstack>>

\* next() returns None: the page is used up and next is null
IterNone ==
  /\ call.op = "iter"
  /\ call.arg.idx >= Leaf_count(file[call.arg.ptr])
  /\ file[call.arg.ptr].next = NULL_IDX
  /\ call' = [call EXCEPT !.op = "iter_done"]
  /\ UNCHANGED <<file, meta, err, bad_free, live, ops, free_vals, wlog, owned, fstack>>

\* next() returns Some(page.get(idx))
IterYield ==
  /\ call.op = "iter"
  /\ call.arg.idx < Leaf_count(file[call.arg.ptr])
  /\ call' = [call EXCEPT !.arg.last = Leaf_get(file[call.arg.ptr], call.arg.idx),
                          !.arg.idx = @ + 1,
                          !.ret = @ + 1]
  /\ UNCHANGED <<file, meta, err, bad_free, live, ops, free_vals, wlog, owned, fstack>>

IterStep == IterHop \/ IterNone \/ IterYield

NextIter ==
  \/ \E k \in Keys : PutI(k)
  \/ \E k \in Keys : DeleteI(k)
  \/ IterStart
  \/ IterStep

\* the caller runs the iterator until it returns None
SpecIter == InitAlloc /\ [][NextIter]_vars /\ WF_vars(IterStep)

\* what holds while the iterator runs: no leaf is read twice, no read
\* fails, the pairs returned so far are the first live pairs, and None is
\* returned only after all of them
IterSound ==
  call.op \in {"iter", "iter_done"} =>
    /\ NoDup(call.arg.pages)
    /\ call.ret <= Cardinality(LiveKeys)
    /\ call.ret > 0 => call.arg.last = LivePairs[call.ret]
    /\ call.op = "iter_done" =>
         /\ call.ret = Cardinality(LiveKeys)
         /\ file[call.arg.ptr].next = NULL_IDX
         /\ call.arg.pages = TreeLeaves

\* C36: on any tree state reachable by put/delete, the iterator returned by
\* iter() terminates: starting at data_head it follows next pointers, skips
\* empty leaves, and returns None when next is null, after yielding a
\* number of pairs equal to the number of live keys; it never visits the
\* same leaf twice.
C36_IterTerminates ==
  /\ [](call.op # "iter_failed" /\ IterSound)
  /\ (call.op = "iter") ~> (call.op = "iter_done")

\* C36: the iterator has returned None after it went through a chain of
\* three or more leaves and returned every live pair
C36_Witness ==
  /\ call.op = "iter_done"
  /\ Len(call.arg.pages) >= 3
  /\ call.ret = Cardinality(LiveKeys)
  /\ call.ret >= 3

\* ---- the head of the leaf chain -------------------------------------------
\* data_head is page 2 before and after the step, in memory and in the file;
\* page 2 is a leaf without predecessor and not on the free-list; a leaf that
\* enters the tree stands to the right of a leaf that was there, and a leaf
\* that leaves the tree stood to the right of a leaf that stays, and is freed
HeadStays ==
  /\ meta.data_head = DEFAULT_PAGE0_IDX
  /\ meta'.data_head = DEFAULT_PAGE0_IDX
  /\ file'[METADATA_IDX].data_head = DEFAULT_PAGE0_IDX
  /\ file'[DEFAULT_PAGE0_IDX].type = LEAF_PAGE_T
  /\ file'[DEFAULT_PAGE0_IDX].prev = NULL_IDX
  /\ DEFAULT_PAGE0_IDX \notin FreeSet([State EXCEPT !.file = file', !.meta = meta'])
  /\ \A before \in {TreeLeaves} :
       \A after \in {Leaves([State EXCEPT !.file = file', !.meta = meta'],
                            meta'.root_page, meta'.depth)} :
         /\ after[1] = DEFAULT_PAGE0_IDX
         /\ \A p \in Range(after) \ Range(before) : file'[p].prev \in Range(before)
         /\ \A p \in Range(before) \ Range(after) :
              /\ file[p].prev \in Range(after)
              /\ file'[p].type = FREE_PAGE_T

\* C37: metadata.data_head never changes: a leaf split places the new leaf to
\* the right of the split leaf and a leaf merge collapses the two leaves into
\* the left one and frees the right one, so data_head equals page 2 in every
\* state reachable from init by put/delete, and page 2 is never put on the
\* free-list.
C37_DataHeadFixed == [][HeadStays]_vars

\* C37: page 2 has been split and has taken its right neighbour, page 3, in
\* again; it heads a chain of several leaves and does not hold the lowest
\* key any more
C37_Witness ==
  /\ meta.data_head = DEFAULT_PAGE0_IDX
  /\ 3 \in FreeSet(State)
  /\ Len(TreeLeaves) >= 2
  /\ Leaf_count(file[DEFAULT_PAGE0_IDX]) >= 1
  /\ live[0] = None
  /\ ops >= LEAF_RECORD_COUNT + 2

\* C38: during any sequence of put/delete/get/iter/check_tree starting from
\* init, every get_page call issued by the engine reads a page whose stored
\* tag equals the requested type: the engine never follows a pointer to a
\* freed page, to page 0 or to a leaf where a directory is expected (or the
\* other way round), so the tag assertion in get_page never fails.  (Every
\* get_page of the engine is a get_page_err in the model, whose failure ends
\* the operation with that error.)
C38_TagsAlwaysMatch ==
  /\ err = "ok"
  /\ \A k \in Keys : get(State, k).err = "ok"
  /\ iter(State).err = "ok"
  /\ check_tree(State) # "panic"
  /\ \A k \in Keys :
       \A fp \in {find_page(State, k)} :
         /\ fp.err = "ok"
         /\ \A j \in 1..Len(fp.path) :
              file[fp.path[j]].type = IF j = Len(fp.path) THEN LEAF_PAGE_T ELSE DIR_PAGE_T

\* C38: the tree has two directory levels and pages on the free-list, and
\* get, iter and check_tree all run to their end on it
C38_Witness ==
  /\ err = "ok"
  /\ meta.depth = 2
  /\ Cardinality(FreeSet(State)) >= 1
  /\ check_tree(State) = "ok"
  /\ iter(State).err = "ok"
  /\ Len(iter(State).pages) >= DIR_KEY_COUNT

\* the leaf at ptr holds fewer than LEAF_RECORD_COUNT / 2 records
Underfull(f, ptr) == Len(f[ptr].key_value) < LEAF_RECORD_COUNT \div 2

\* every leaf of a tree with more than one leaf holds the minimum
MinFill == Len(TreeLeaves) > 1 => \A i \in 1..Len(TreeLeaves) : ~Underfull(file, TreeLeaves[i])

\* a step that ends with an underfull leaf in the tree was taken on a root
\* at depth 1 with count = 0, and has left that root as it was
UnderfullOnlyUnderEmptyRoot ==
  \A after \in {Leaves([State EXCEPT !.file = file', !.meta = meta'],
                       meta'.root_page, meta'.depth)} :
    (\E i \in 1..Len(after) : Underfull(file', after[i])) =>
      /\ meta.depth = 1
      /\ Dir_count(file[meta.root_page]) = 0
      /\ meta'.depth = 1
      /\ meta'.root_page = meta.root_page
      /\ Dir_count(file'[meta'.root_page]) = 0
      /\ Len(after) = 1

\* C39: an underfull leaf exists only as the sole leaf of the tree: in every
\* state reachable by put and delete in which the tree has more than one
\* leaf, every leaf holds at least LEAF_RECORD_COUNT / 2 records; delete
\* leaves a leaf underfull only in the branch where its parent has
\* count = 0, which is reached only for the root at depth 1.
C39_UnderfullOnlySoleLeaf == []MinFill /\ [][UnderfullOnlyUnderEmptyRoot]_vars

\* C39: the tree has had several leaves and has shrunk back to one leaf,
\* which the last deletes have emptied
C39_Witness ==
  /\ err = "ok"
  /\ Cardinality(FreeSet(State)) >= 1
  /\ Len(TreeLeaves) = 1
  /\ Underfull(file, TreeLeaves[1])
  /\ Dir_count(file[meta.root_page]) = 0

=============================================================================
